---- MODULE Spec2Model ----
(***************************************************************************)
(* IMDbStream: the classification, caching and catalog-serving pipeline.   *)
(*                                                                         *)
(* The module holds four state machines over disjoint variables:           *)
(*   - catalog serving, one request at a time (handleCatalog behind the    *)
(*     visibility gate): SpecPage, SpecVis;                                *)
(*   - the on-demand lookup path with its in-memory cache, run by          *)
(*     concurrent requests (typedPage workers, hasType, bumpStats):        *)
(*     SpecLookup;                                                         *)
(*   - classifyAndWriteSplit and its worker pool: SpecSplit;               *)
(*   - warmList / classifyAndFetch and the durable snapshots: SpecWarm.    *)
(* A specification runs one machine and leaves the others parked.          *)
(***************************************************************************)
EXTENDS Integers, Sequences, FiniteSets, TLC

VARIABLES
  \* ---- catalog serving (server: handleCatalog, visibility gate)
  imdbList,     \* ids of the list page at the source site, in page order
  cinemeta,     \* upstream metadata service: <<bucket, id>> -> meta or NoMeta
  lists,        \* the user's list collection (users.get(uid).lists)
  gateOn,       \* mountVisibilityGate(app) was called
  memLs,        \* mem has the "ls:<lsid>" entry
  memMeta,      \* the "meta:<bucket>:<id>" keys mem holds
  memStats,     \* the "stats:<lsid>" entry of mem, or NoStats
  req,          \* the catalog request served last, or NoReq
  res,          \* the response sent for req, or NoRes
  servedFor,    \* history: the filter part of the requests recorded in served
  served,       \* history: the pages answered for servedFor, by paging
  \* ---- on-demand lookup, concurrent requests (typedPage, getMeta)
  lkCache,      \* the "meta:<bucket>:<id>" keys of mem
  lkReq,        \* per catalog request: its phase, cursor i and slots
  lkWorker,     \* per request and worker: where it stands in its loop
  lkFails,      \* upstream requests that have failed so far
  lkSeries,     \* history: per request, the ids whose series lookup resolved
  \* ---- the "stats:<lsid>" entry of mem (hasType, bumpStats)
  stItems,      \* how many items of each type the list has upstream
  stObjs,       \* the stats objects created so far: reference -> {movie, series}
  stMem,        \* the object mem holds under "stats:<lsid>", 0 when it holds none
  stProbe,      \* per hasType call: its phase, its type, its local stats object
  stPageMax,    \* history: per type, the largest page length bumpStats stored
                \* in the current TTL window
  \* ---- classifyAndWriteSplit and its worker pool
  spIds,        \* the ids argument
  spPhase,      \* "idle", "pooling" (inside pool) or "written"
  spNext,       \* i of pool: how many items have been handed to a worker
  spRun,        \* the indices whose worker invocation is in flight
  spAwaited,    \* the indices whose promise Promise.allSettled was given
  spRes,        \* results of pool, by index
  spMovies,     \* ids of <lsid>-movies.json
  spSeries,     \* ids of <lsid>-series.json
  spEpMap,      \* mappedEpisodes of <lsid>-episode-map.json
  spFails,      \* upstream requests that have failed so far
  INCLUDE_MUSIC_VIDEO,  \* the INCLUDE_MUSIC_VIDEO setting of the process
  \* ---- warmList and the durable snapshots
  wmFile,       \* per bucket: the snapshot file, with the pass that wrote it
  wmJob,        \* per refresh: its phase, position and local movies/series
  wmPasses,     \* classification passes started so far
  wmFails,      \* upstream requests that have failed so far
  wmBothOk,     \* history: per refresh, the ids of its pass for which both
                \* bucket requests succeeded with a meta in the payload
  \* ---- sortMetas applied to one item set
  soArr,        \* the metas handed to sortMetas, in list order
  soOut,        \* per order: the array sortMetas returned, once it was asked
  \* ---- explodeToCanonicalSet applied to one raw genre field
  gnRaw,        \* the raw genre field exploded last
  gnSet,        \* the set explodeToCanonicalSet returned for gnRaw
  \* ---- GET /manifest.json and the list-management API
  mfCatalogs,   \* the catalogs of the manifest answered last, as <<lsid, type>>
  mfFor,        \* history: the list collection that manifest was built from
  mfVis,        \* history: visibilityFor(l) of the entry it was built from
  mfTrail,      \* history: how far the hide-and-show scenario has come
  \* ---- POST /api/user/:uid/lists
  adSrc,        \* body.src of the request served last
  adRes,        \* the response to it
  adBefore,     \* history: the list collection when that request arrived
  \* ---- the extras of a catalog request
  exParts,      \* history: the parts the URL served last was written from
  exUrl,        \* req.url of the catalog request served last
  \* ---- resolveParentSeriesFromImdb and its episode -> parent LRU
  epPage,       \* the title page of the call served last
  epLru,        \* EP_PARENT_LRU: episode -> parent, 0 when it has no entry
  epOut,        \* what that call returned, and from where
  \* ---- the in-memory cache (getCache, setCache) and fetchImdbIds
  mem,          \* key -> { v, exp }
  clock,        \* now()
  fiCalls,      \* the fetchImdbIds calls in flight
  fiOut,        \* what returned last returned, and what its setCache swept
  fiFail,       \* history: expiry of the entry of the last total failure, or 0
  \* ---- the add-list requests suspended on fetchImdbIds
  coPending,    \* per request slot: the list id it will add, "" when it is free
  \* ---- the snapshot files of a second user
  u1File        \* the snapshot files of the list in data/cache/u1

pageVars == <<imdbList, cinemeta, lists, gateOn, memLs, memMeta, memStats,
              req, res, servedFor, served>>

lkVars == <<lkCache, lkReq, lkWorker, lkFails, lkSeries>>

stVars == <<stItems, stObjs, stMem, stProbe, stPageMax>>

spVars == <<spIds, spPhase, spNext, spRun, spAwaited, spRes, spMovies, spSeries,
            spEpMap, spFails, INCLUDE_MUSIC_VIDEO>>

wmVars == <<wmFile, wmJob, wmPasses, wmFails, wmBothOk>>

soVars == <<soArr, soOut>>

\* the variables of the machines added after the first five
gnVars == <<gnRaw, gnSet>>

mfVars == <<mfCatalogs, mfFor, mfVis, mfTrail>>

adVars == <<adSrc, adRes, adBefore>>

exVars == <<exParts, exUrl>>

epVars == <<epPage, epLru, epOut>>

chVars == <<mem, clock, fiCalls, fiOut, fiFail>>

coVars == <<coPending>>

ownVars == <<u1File>>

lateVars == <<epVars, chVars, coVars, ownVars>>

moreVars == <<soVars, gnVars, mfVars, adVars, exVars, lateVars>>

vars == <<pageVars, lkVars, stVars, spVars, wmVars, moreVars>>

\* ------------------------------------------------------------------ bounds
MaxLen == 5          \* longest list page of the paging scenarios
MaxFail == 1         \* upstream requests that may fail in one behaviour
MaxObj == 2          \* stats objects created in one behaviour
MaxItems == 2        \* items of one type on the list of the stats scenarios
MaxSplit == 3        \* longest ids argument of classifyAndWriteSplit
MaxPass == 2         \* classification passes of warmList in one behaviour
MaxLabelled == 2     \* longest list of the excluded-label scenarios
MaxSort == 4         \* longest array handed to sortMetas alone

\* ------------------------------------------------------- program constants
\* The page sizes of the source are modelled at a scale of 1:20, so that a
\* list longer than typedPage's floor stays small: 80 -> 4, 50 -> 3 (kept
\* strictly between 40 and 80), 40 -> 2, 20 -> 1.
LIMIT_CAP == 4       \* Math.min(80, ...) of handleCatalog
TYPED_FLOOR == 4     \* Math.max(limit + skip, 80) of handleCatalog
DEFAULT_LIMIT == 3   \* parseInt(extras.limit || '50')
CONC == 2            \* workers of one typedPage call (6 in the source)
CONCURRENCY == 2     \* limit of the classifier's pool (12 by default)
PAGE == 1            \* the 20-item page of the pagination scenario
SAMPLE == 2          \* ids hasType probes (sample = 120 in the source)
SAMPLE_V2 == 1       \* ids hasType of the v2 server probes (sample = 40)

Buckets == {"movie", "series"}
null == -1           \* a stats count that is not known yet
LSID == "ls1"

NoMeta == [id |-> 0, type |-> "", name |-> "", genres |-> <<>>, rating |-> 0]
Meta(i, t, n, g, r) == [id |-> i, type |-> t, name |-> n, genres |-> g, rating |-> r]

Max(a, b) == IF a > b THEN a ELSE b
Min(a, b) == IF a < b THEN a ELSE b
Range(s) == {s[k] : k \in 1..Len(s)}

\* slice(a, b) of a JavaScript array, 0-based, end exclusive
Slice(s, a, b) ==
  LET lo == Min(Max(a, 0), Len(s))
      hi == Min(Max(b, lo), Len(s))
  IN  SubSeq(s, lo + 1, hi)

\* String.prototype.toLowerCase on the labels the model uses
ToLower(s) ==
  CASE s = "Top" -> "top"
    [] s = "TOP" -> "top"
    [] s = "Comedy" -> "comedy"
    [] s = "Drama" -> "drama"
    [] s = "Alpha" -> "alpha"
    [] s = "Beta" -> "beta"
    [] OTHER -> s

\* String.prototype.includes on the names and search terms the model uses
Includes(name, term) ==
  \/ term = ""
  \/ name = term
  \/ name = "alpha" /\ term \in {"al", "a"}
  \/ name = "beta" /\ term \in {"be", "a"}

\* ------------------------------------------------------ genre canonicalizer
\* Genre labels are strings; the helpers below work on them character by
\* character, as the regular expressions of the source do.
UpperCase == <<"A", "B", "C", "D", "E", "F", "G", "H", "I", "J", "K", "L", "M",
               "N", "O", "P", "Q", "R", "S", "T", "U", "V", "W", "X", "Y", "Z">>
LowerCase == <<"a", "b", "c", "d", "e", "f", "g", "h", "i", "j", "k", "l", "m",
               "n", "o", "p", "q", "r", "s", "t", "u", "v", "w", "x", "y", "z">>

\* toLowerCase / toUpperCase of one character
LowerOf == [c \in Range(UpperCase) |-> LowerCase[CHOOSE k \in 1..Len(UpperCase) : UpperCase[k] = c]]
UpperOf == [c \in Range(LowerCase) |-> UpperCase[CHOOSE k \in 1..Len(LowerCase) : LowerCase[k] = c]]
lowerChar(c) == IF c \in DOMAIN LowerOf THEN LowerOf[c] ELSE c
upperChar(c) == IF c \in DOMAIN UpperOf THEN UpperOf[c] ELSE c

\* String.prototype.toLowerCase
RECURSIVE toLowerCase(_)
toLowerCase(s) ==
  IF s = "" THEN "" ELSE lowerChar(Head(s)) \o toLowerCase(Tail(s))

\* replace(/[\s._-]+/g, ' '): inRun is TRUE right after a separator
RECURSIVE collapseSeparators(_, _)
collapseSeparators(s, inRun) ==
  IF s = "" THEN ""
  ELSE IF Head(s) \in {" ", ".", "_", "-"}
       THEN (IF inRun THEN "" ELSE " ") \o collapseSeparators(Tail(s), TRUE)
       ELSE Head(s) \o collapseSeparators(Tail(s), FALSE)

\* String.prototype.trim
RECURSIVE trim(_)
trim(s) ==
  IF s = "" THEN ""
  ELSE IF Head(s) = " " THEN trim(Tail(s))
  ELSE IF SubSeq(s, Len(s), Len(s)) = " " THEN trim(SubSeq(s, 1, Len(s) - 1))
  ELSE s

\* _normGenre: lower-case, runs of [\s._-] to one space, trim
_normGenre(s) == trim(collapseSeparators(toLowerCase(s), FALSE))

\* GENRE_ALIASES.get(key), "" when the key has no alias
GENRE_ALIASES(key) ==
  CASE key \in {"sci fi", "scifi", "sci-fi", "science fiction"} -> "Sci-Fi"
    [] key \in {"doc", "docs", "documentaries", "documentary"} -> "Documentary"
    [] key \in {"biopic", "bio", "biography"} -> "Biography"
    [] key \in {"tvmovie", "tv movie"} -> "TV Movie"
    [] key \in {"reality tv", "reality-tv"} -> "Reality-TV"
    [] key \in {"talk show", "talk-show"} -> "Talk-Show"
    [] key \in {"game show", "game-show"} -> "Game-Show"
    [] key \in {"kids", "children", "childrens"} -> "Family"
    [] key = "action & adventure" -> "Action & Adventure"
    [] key = "sci-fi & fantasy" -> "Sci-Fi & Fantasy"
    [] OTHER -> ""

\* key.split(' ').map(capitalize).join(' '): atStart is TRUE at the first
\* character of a word
RECURSIVE capitalizeWords(_, _)
capitalizeWords(s, atStart) ==
  IF s = "" THEN ""
  ELSE (IF atStart THEN upperChar(Head(s)) ELSE Head(s))
         \o capitalizeWords(Tail(s), Head(s) = " ")

TitleCase(key) == capitalizeWords(key, TRUE)

\* canonicalizeGenre; "" stands for null
canonicalizeGenre(input) ==
  IF input = "" THEN ""
  ELSE LET key == _normGenre(input)
           aliased == GENRE_ALIASES(key)
           words == TitleCase(key)
       IN  IF aliased # "" THEN aliased
           ELSE IF words = "Sci Fi" THEN "Sci-Fi"
           ELSE words

\* canonicalizeGenre of the labels the catalog scenarios repeat, computed once
CanonicalOf ==
  [g \in {"Comedy", "Drama", "Top", "Action", "Adventure", "Fantasy", "Sci-Fi",
          "Action & Adventure", "Sci-Fi & Fantasy"} |-> canonicalizeGenre(g)]

Canonical(g) == IF g \in DOMAIN CanonicalOf THEN CanonicalOf[g] ELSE canonicalizeGenre(g)

\* GENRE_EXPANDS.get(c) || [c]
GENRE_EXPANDS(c) ==
  CASE c = "Action & Adventure" -> {"Action", "Adventure"}
    [] c = "Sci-Fi & Fantasy" -> {"Sci-Fi", "Fantasy"}
    [] OTHER -> {c}

\* String(raw).split(/[,&/]| and /i); cur is the part read so far
RECURSIVE splitGenres(_, _)
splitGenres(s, cur) ==
  IF s = "" THEN <<cur>>
  ELSE IF Head(s) \in {",", "&", "/"} THEN <<cur>> \o splitGenres(Tail(s), "")
  ELSE IF Len(s) >= 5 /\ toLowerCase(SubSeq(s, 1, 5)) = " and "
       THEN <<cur>> \o splitGenres(SubSeq(s, 6, Len(s)), "")
  ELSE splitGenres(Tail(s), cur \o Head(s))

\* A raw genre field is an array of labels or one string.
GenreArray(labels) == [isArray |-> TRUE, val |-> labels]
GenreString(label) == [isArray |-> FALSE, val |-> label]

\* explodeToCanonicalSet
explodeToCanonicalSet(raw) ==
  LET parts == IF raw.isArray THEN raw.val ELSE splitGenres(raw.val, "")
      empty == IF raw.isArray THEN FALSE ELSE raw.val = ""
  IN  IF empty THEN {}
      ELSE UNION {GENRE_EXPANDS(Canonical(parts[k])) :
                    k \in {j \in 1..Len(parts) : Canonical(parts[j]) # ""}}

\* wantedSet of handleCatalog's genre filter
WantedSet(genreRaw) == GENRE_EXPANDS(Canonical(genreRaw))

\* the predicate of the filter; meta.genres is an array
\* explodeToCanonicalSet of the genres arrays the catalog scenarios repeat,
\* computed once
ExplodedOf ==
  [genres \in {<<"Comedy">>, <<"Drama">>} |-> explodeToCanonicalSet(GenreArray(genres))]

Exploded(genres) ==
  IF genres \in DOMAIN ExplodedOf THEN ExplodedOf[genres]
  ELSE explodeToCanonicalSet(GenreArray(genres))

InWantedSet(meta, wantedSet) ==
  (wantedSet \cap Exploded(meta.genres)) # {}

\* the fixed taxonomy
DEFAULT_GENRES ==
  {"Action", "Adventure", "Animation", "Biography", "Comedy", "Crime", "Documentary",
   "Drama", "Family", "Fantasy", "History", "Horror", "Music", "Musical", "Mystery",
   "Romance", "Sci-Fi", "Sport", "Thriller", "War", "Western"}

\* the genre filter of handleCatalog applied to one meta
GenreMatches(meta, genreRaw) == InWantedSet(meta, WantedSet(genreRaw))

\* ------------------------------------------------------------- visibility
\* a visibilityFor that reads showIn alone
visibilityFor_showInOnly(list, s) ==
  [discover |-> ToLower(list.showIn) \in {"discover", "both", ""},
   home     |-> ToLower(list.showIn) \in {"home", "both"}]

\* A visibility flag of a list entry is "t", "f" or "u" (undefined).
\* visibilityFor(list)[s] of the server
visibilityFor(list, s) ==
  LET vv == list.visibility[s]
      showIn == ToLower(list.showIn)
  IN  [discover |-> IF vv.discover # "u" THEN vv.discover = "t"
                    ELSE showIn \in {"discover", "both", ""},
       home     |-> IF vv.home # "u" THEN vv.home = "t"
                    ELSE showIn \in {"home", "both"}]

\* a handler that never takes a catalog for home-only
isHomeOnly_never(list, type) == FALSE

\* __isHomeOnly of handleCatalog
isHomeOnly(list, type) ==
  LET tVisX == IF type = "movie" THEN visibilityFor(list, "movie")
               ELSE visibilityFor(list, "series")
  IN  tVisX.home /\ ~tVisX.discover

\* getVisibilityFor of the gate: only boolean flags of visibility[type] count
getVisibilityFor(list, type) ==
  LET v == list.visibility[type]
  IN  IF v.discover = "u" /\ v.home = "u" THEN [discover |-> TRUE, home |-> TRUE]
      ELSE [discover |-> IF v.discover = "u" THEN TRUE ELSE v.discover = "t",
            home     |-> IF v.home = "u" THEN TRUE ELSE v.home = "t"]

\* parseCatalogId of the gate: the type comes from the id's suffix
parseCatalogId(idKind) ==
  CASE idKind = "movies" -> "movie"
    [] idKind = "series" -> "series"
    [] OTHER -> ""

\* the middleware of mountVisibilityGate: "" when it calls next()
GateVerdict(list, p) ==
  LET type == parseCatalogId(p.idKind)
      vis == getVisibilityFor(list, type)
      isDiscover == p.genre # ""
  IN  IF type = "" THEN ""
      ELSE IF ~vis.discover /\ ~vis.home THEN "CATALOG_DISABLED"
      ELSE IF ~vis.discover /\ vis.home /\ isDiscover THEN "HIDDEN_FROM_DISCOVER"
      ELSE ""

\* ------------------------------------------------------ on-demand lookup
\* getMeta against an upstream that answers: the meta, or NoMeta
getMeta(up, type, tt) == up[<<type, tt>>]

getTypedMetaDeterministic(up, type, tt) ==
  IF type = "movie"
  THEN IF getMeta(up, "series", tt) # NoMeta THEN NoMeta
       ELSE getMeta(up, "movie", tt)
  ELSE getMeta(up, "series", tt)

\* the test a typedPage worker applies before it fills slots[my]
SlotKept(meta, type, search) ==
  /\ meta # NoMeta
  /\ (meta.type = "" \/ ToLower(meta.type) = type)
  /\ (search = "" \/ Includes(ToLower(meta.name), search))

\* typedPage once every worker has finished: slots in list order, cut at
\* skip + limit (the caller passes skip = 0)
typedPage(up, type, ids, limit, search) ==
  LET term == ToLower(search)
      slots == [k \in 1..Len(ids) |-> getTypedMetaDeterministic(up, type, ids[k])]
      kept == SelectSeq(slots, LAMBDA m : SlotKept(m, type, term))
  IN  Slice(kept, 0, Max(1, limit))

\* the "meta:<type>:<tt>" keys a full typedPage run leaves in mem
MetaKeysAfter(up, type, ids) ==
  {<<"series", tt>> : tt \in {x \in Range(ids) : up[<<"series", x>>] # NoMeta}}
  \cup (IF type = "movie"
        THEN {<<"movie", tt>> : tt \in {x \in Range(ids) :
                 up[<<"series", x>>] = NoMeta /\ up[<<"movie", x>>] # NoMeta}}
        ELSE {})

\* ------------------------------------------------------------------ sorting
normalizeSortKey(k) ==
  LET sk == ToLower(k)
  IN  CASE sk = "" -> ""
        [] sk \in {"alpha", "alphabetical", "title", "name"} -> "name"
        [] sk \in {"imdb", "score", "rating", "popularity"} -> "rating"
        [] sk \in {"added", "recent", "new", "updated"} -> "added"
        [] OTHER -> sk

normalizeOrder(v) ==
  IF ToLower(IF v = "" THEN "asc" ELSE v) \in {"-1", "desc", "descending", "reverse", "rev"}
  THEN "desc" ELSE "asc"

\* the UTF-16 code unit of a character of the names the model uses
CodeOf ==
  [c \in {" "} \cup Range(UpperCase) \cup Range(LowerCase) |->
     IF c = " " THEN 32
     ELSE IF c \in Range(UpperCase)
          THEN 64 + CHOOSE k \in 1..Len(UpperCase) : UpperCase[k] = c
          ELSE 96 + CHOOSE k \in 1..Len(LowerCase) : LowerCase[k] = c]

\* (a > b) - (a < b) of two strings, compared code unit by code unit
RECURSIVE compareStrings(_, _)
compareStrings(a, b) ==
  IF a = "" THEN (IF b = "" THEN 0 ELSE -1)
  ELSE IF b = "" THEN 1
  ELSE IF Head(a) = Head(b) THEN compareStrings(Tail(a), Tail(b))
  ELSE IF CodeOf[Head(a)] < CodeOf[Head(b)] THEN -1 ELSE 1

\* the \s+ of the article pattern: the white space at the start of s is dropped
RECURSIVE dropSpaces(_)
dropSpaces(s) ==
  IF s # "" /\ Head(s) = " " THEN dropSpaces(Tail(s)) ELSE s

\* replace(/^(the|a|an)\s+/i, ''): the alternatives are tried in this order
stripArticle(s) ==
  LET lc == toLowerCase(s)
      starts(p) == /\ Len(s) > Len(p)
                   /\ SubSeq(lc, 1, Len(p)) = p
                   /\ SubSeq(s, Len(p) + 1, Len(p) + 1) = " "
      rest(p) == dropSpaces(SubSeq(s, Len(p) + 1, Len(s)))
  IN  IF starts("the") THEN rest("the")
      ELSE IF starts("a") THEN rest("a")
      ELSE IF starts("an") THEN rest("an")
      ELSE s

\* strip of sortMetas
strip(s) == trim(toLowerCase(stripArticle(s)))

\* toNum of sortMetas: a missing value and a string without digits are 0, a
\* number and a numeric string are their value
toNum(x) == IF x = null THEN 0 ELSE x

\* getRating of sortMetas
getRating(m) == toNum(m.rating)

\* getter(m) of sortMetas for the keys the model uses
SortGetter(m, key) ==
  IF key = "rating" THEN getRating(m) ELSE strip(m.name)

\* a sort that returns its input
sortMetas_asGiven(arr, sortKey, order) == arr

\* sortMetas: stable, ties broken by the index in arr
sortMetas(arr, sortKey, order) ==
  LET key == ToLower(sortKey)
      dir == IF ToLower(IF order = "" THEN "asc" ELSE order) = "desc" THEN -1 ELSE 1
      n == Len(arr)
      Reverse == SubSeq([k \in 1..n |-> arr[n + 1 - k]], 1, n)
      d(i, j) == LET a == SortGetter(arr[i], key)
                     b == SortGetter(arr[j], key)
                 IN  IF key # "rating" THEN compareStrings(a, b)
                     ELSE IF a > b THEN 1 ELSE IF a < b THEN -1 ELSE 0
      Before(i, j) == IF d(i, j) # 0 THEN d(i, j) * dir < 0 ELSE i < j
      pos(j) == Cardinality({i \in 1..n : i # j /\ Before(i, j)})
  IN  IF key \in {"added", ""}
      THEN (IF dir = -1 THEN Reverse ELSE arr)
      ELSE SubSeq([k \in 1..n |-> arr[CHOOSE j \in 1..n : pos(j) = k - 1]], 1, n)

\* ------------------------------------------------------------ handleCatalog
EmptyEntry ==
  [id |-> "", showIn |-> "",
   visibility |-> [movie |-> [discover |-> "u", home |-> "u"],
                   series |-> [discover |-> "u", home |-> "u"]],
   defaultSort |-> [key |-> "", order |-> ""]]

\* (u.lists || []).find(x => (x.id || x) === lsid) || {}
FindEntry(ls, lsid) ==
  IF \E k \in 1..Len(ls) : ls[k].id = lsid
  THEN ls[CHOOSE k \in 1..Len(ls) :
            ls[k].id = lsid /\ \A j \in 1..(k - 1) : ls[j].id # lsid]
  ELSE EmptyEntry

\* Math.max(0, parseInt(extras.skip || '0') || 0); an absent skip is 0
SkipOf(p) == Max(0, p.skip)

\* Math.max(1, Math.min(80, parseInt(extras.limit || '50') || 50)); an absent
\* limit and limit=0 are 0 here
LimitOf(p) == Max(1, Min(LIMIT_CAP, IF p.limit = 0 THEN DEFAULT_LIMIT ELSE p.limit))

\* extras.sort / extras.order after the per-list default sort is applied
SortOf(ls, p) ==
  LET ds == FindEntry(ls, LSID).defaultSort
  IN  IF p.sort = "" /\ ds.key # "" THEN normalizeSortKey(ds.key) ELSE p.sort

OrderOf(ls, p) ==
  LET ds == FindEntry(ls, LSID).defaultSort
  IN  IF p.order = "" /\ ds.order # "" THEN normalizeOrder(ds.order) ELSE p.order

\* the ghosting test of handleCatalog: TRUE when the query is answered empty
Ghosted(ls, p) ==
  /\ isHomeOnly(FindEntry(ls, LSID), p.type)
  /\ \/ ToLower(IF p.genre = "" THEN "Top" ELSE p.genre) # "top"
     \/ p.search # ""

\* TRUE when handleCatalog answers before it reads the list
EarlyEmpty(ls, p) ==
  \/ p.type \notin {"movie", "series"}
  \/ p.idKind \notin {"movies", "series"}
  \/ p.path = "malformed"
  \/ Ghosted(ls, p)

\* the metas of the page handleCatalog answers with once typedPage has run
PageMetas(ls, up, ids, p) ==
  LET skip == SkipOf(p)
      limit == LimitOf(p)
      typed == typedPage(up, p.type, ids, Max(limit + skip, TYPED_FLOOR), p.search)
      wantedSet == WantedSet(p.genre)
      filtered == IF p.genre # ""
                  THEN SelectSeq(typed, LAMBDA meta : InWantedSet(meta, wantedSet))
                  ELSE typed
      sort == IF SortOf(ls, p) # "" THEN normalizeSortKey(SortOf(ls, p)) ELSE ""
      order == normalizeOrder(OrderOf(ls, p))
      sorted == IF sort # "" THEN sortMetas(filtered, sort, order) ELSE filtered
  IN  Slice(sorted, skip, skip + limit)

\* the body of handleCatalog answers 200 with this metas array
handleCatalog(ls, up, ids, p) ==
  IF EarlyEmpty(ls, p) THEN <<>> ELSE PageMetas(ls, up, ids, p)

\* bumpStats: the entry of mem after a page of countFound items
bumpStats(stats, type, countFound) ==
  LET t == IF type = "movie" THEN "movie" ELSE "series"
      prev == IF stats[t] = null THEN 0 ELSE stats[t]
  IN  [stats EXCEPT ![t] = Max(prev, countFound)]

\* ------------------------------------------------- catalog serving machine
Ids == 1..MaxLen

NoReq ==
  [type |-> "", idKind |-> "", genre |-> "", search |-> "", sort |-> "",
   order |-> "", skip |-> 0, limit |-> 0, cookie |-> "", path |-> ""]

NoRes == [by |-> "", status |-> 0, hasMetas |-> FALSE, metas |-> <<>>, err |-> ""]

\* res.json({ metas }) of handleCatalog
Answer(metas) ==
  [by |-> "handleCatalog", status |-> 200, hasMetas |-> TRUE, metas |-> metas, err |-> ""]

\* res.status(404).json({ err }) of the gate
GateAnswer(err) ==
  [by |-> "gate", status |-> 404, hasMetas |-> FALSE, metas |-> <<>>, err |-> err]

\* handleCatalog rejects before its try block: the request is answered by the
\* framework's error handler, or by nobody
Rejections ==
  {[by |-> "express", status |-> 500, hasMetas |-> FALSE, metas |-> <<>>, err |-> "URIError"],
   [by |-> "nobody", status |-> 0, hasMetas |-> FALSE, metas |-> <<>>, err |-> "URIError"]}

\* the pagings of the pagination scenario, as <<skip, limit>>
Pagings == {<<0, PAGE>>, <<PAGE, PAGE>>, <<0, 2 * PAGE>>}
NotServed == [done |-> FALSE, metas |-> <<>>]
FilterOf(p) == [p EXCEPT !.skip = 0, !.limit = 0]

\* history of the pages answered by handleCatalog for one filter
Record(p, r) ==
  IF r.by = "handleCatalog" /\ <<p.skip, p.limit>> \in Pagings
  THEN /\ servedFor' = FilterOf(p)
       /\ served' = [k \in Pagings |->
            IF k = <<p.skip, p.limit>> THEN [done |-> TRUE, metas |-> r.metas]
            ELSE IF servedFor = FilterOf(p) THEN served[k]
            ELSE NotServed]
  ELSE UNCHANGED <<servedFor, served>>

\* One request GET /catalog/:type/:catalogId...: the gate when it is mounted,
\* then handleCatalog.
Request(p) ==
  LET verdict == IF gateOn THEN GateVerdict(FindEntry(lists, LSID), p) ELSE ""
  IN
  /\ req' = p
  /\ UNCHANGED <<imdbList, cinemeta, lists, gateOn>>
  /\ IF verdict # ""
     THEN /\ res' = GateAnswer(verdict)
          /\ UNCHANGED <<memLs, memMeta, memStats>>
     ELSE IF p.cookie = "malformed"
     THEN /\ res' \in Rejections
          /\ UNCHANGED <<memLs, memMeta, memStats>>
     ELSE LET metas == handleCatalog(lists, cinemeta, imdbList, p)
          IN  /\ res' = Answer(metas)
              /\ IF EarlyEmpty(lists, p)
                 THEN UNCHANGED <<memLs, memMeta, memStats>>
                 ELSE /\ memLs' = TRUE
                      /\ memMeta' = memMeta \cup MetaKeysAfter(cinemeta, p.type, imdbList)
                      /\ memStats' = IF Len(metas) > 0
                                      THEN bumpStats(memStats, p.type, Len(metas))
                                      ELSE memStats
  /\ Record(p, res')

\* ---- the lists and requests of the pagination scenarios
Attrs == {<<"Comedy", 1, "Alpha">>, <<"Drama", 2, "Beta">>}

\* an upstream where id k is a movie with the attributes at[k]
MoviesUpstream(n, at) ==
  [key \in Buckets \X Ids |->
     IF key[1] = "movie" /\ key[2] <= n
     THEN Meta(key[2], "movie", at[key[2]][3], <<at[key[2]][1]>>, at[key[2]][2])
     ELSE NoMeta]

Entry(showIn, md, mh) ==
  [id |-> LSID, showIn |-> showIn,
   visibility |-> [movie |-> [discover |-> md, home |-> mh],
                   series |-> [discover |-> "u", home |-> "u"]],
   defaultSort |-> [key |-> "", order |-> ""]]

InitServing ==
  /\ memLs = FALSE
  /\ memMeta = {}
  /\ memStats = [movie |-> null, series |-> null]
  /\ req = NoReq
  /\ res = NoRes
  /\ servedFor = NoReq
  /\ served = [k \in Pagings |-> NotServed]

InitPage ==
  /\ \E n \in 0..MaxLen : \E at \in [1..n -> Attrs] :
       /\ imdbList = [k \in 1..n |-> k]
       /\ cinemeta = MoviesUpstream(n, at)
  /\ lists = <<Entry("", "u", "u")>>
  /\ gateOn = FALSE
  /\ InitServing

PageParams ==
  {[type |-> "movie", idKind |-> "movies", genre |-> g, search |-> q, sort |-> so[1],
    order |-> so[2], skip |-> k[1], limit |-> k[2], cookie |-> "ok", path |-> "ok"] :
     g \in {"", "Comedy"}, q \in {"", "al"}, so \in {<<"", "">>, <<"imdb", "desc">>},
     k \in Pagings}


\* ---- the lists and requests of the visibility scenarios
\* id 1 has movie metadata only, id 2 series metadata only, id 3 both
MixedUpstream ==
  [key \in Buckets \X Ids |->
     CASE key = <<"movie", 1>> -> Meta(1, "movie", "Alpha", <<"Comedy">>, 1)
       [] key = <<"series", 2>> -> Meta(2, "series", "Beta", <<"Drama">>, 2)
       [] key = <<"movie", 3>> -> Meta(3, "movie", "Beta", <<"Comedy">>, 2)
       [] key = <<"series", 3>> -> Meta(3, "series", "Beta", <<"Comedy">>, 2)
       [] OTHER -> NoMeta]

Flags == {"u", "t", "f"}
ShowIns == {"", "home", "both", "hidden"}

InitVis ==
  /\ imdbList = <<1, 2, 3>>
  /\ cinemeta = MixedUpstream
  /\ lists \in {<<>>} \cup {<<Entry(sh, md, mh)>> : sh \in ShowIns, md \in Flags, mh \in Flags}
  /\ gateOn \in BOOLEAN
  /\ InitServing

VisParams ==
  {[type |-> t[1], idKind |-> t[2], genre |-> g[1], search |-> g[2], sort |-> "",
    order |-> "", skip |-> 0, limit |-> 0, cookie |-> f[1], path |-> f[2]] :
     t \in {<<"movie", "movies">>, <<"series", "series">>, <<"movie", "series">>,
            <<"tv", "movies">>, <<"movie", "bad">>},
     g \in {<<"", "">>, <<"Top", "">>, <<"Comedy", "">>, <<"", "al">>},
     f \in {<<"ok", "ok">>, <<"malformed", "ok">>, <<"ok", "malformed">>}}


\* ------------------------------------------- on-demand lookup, concurrent
\* The movie catalog and the series catalog of one list are requested once
\* each; the requests and their typedPage workers interleave at every await.
LkIds == <<1, 2, 3>>
LkReqs == {"movie", "series"}      \* a request is named by its :type
LkWorkers == 1..CONC

\* a worker after getMeta('series', tt) returned s, skipping the series check
AfterSeries_noCheck(type, s) ==
  IF type = "movie" THEN "movie" ELSE IF s THEN "fill" ELSE "skip"

\* getTypedMetaDeterministic after getMeta('series', tt) returned s (TRUE for
\* a meta): "skip" returns null, "movie" goes on to getMeta('movie', tt),
\* "fill" returns the series meta
AfterSeries(type, s) ==
  IF type = "movie"
  THEN (IF s THEN "skip" ELSE "movie")
  ELSE (IF s THEN "fill" ELSE "skip")

\* getMeta's result: a cache hit at the call, or the upstream's meta when the
\* request succeeds
Got(w, bucket, ok) ==
  w.hit \/ (ok /\ MixedUpstream[<<bucket, LkIds[w.my]>>] # NoMeta)

IdleWorker == [pc |-> "loop", my |-> 0, hit |-> FALSE]

InitLookup ==
  /\ lkCache = {}
  /\ lkReq = [r \in LkReqs |-> [phase |-> "idle", i |-> 0,
                                 slots |-> [k \in 1..Len(LkIds) |-> FALSE]]]
  /\ lkWorker = [r \in LkReqs |-> [w \in LkWorkers |-> IdleWorker]]
  /\ lkFails = 0
  /\ lkSeries = [r \in LkReqs |-> {}]

\* handleCatalog reaches typedPage: the workers are created
StartPage(r) ==
  /\ lkReq[r].phase = "idle"
  /\ lkReq' = [lkReq EXCEPT ![r].phase = "running"]
  /\ UNCHANGED <<lkCache, lkWorker, lkFails, lkSeries>>

\* while (i < ids.length) { my = i++; ... getMeta('series', tt) is called
Claim(r, w) ==
  /\ lkReq[r].phase = "running"
  /\ lkWorker[r][w].pc = "loop"
  /\ IF lkReq[r].i < Len(LkIds)
     THEN /\ lkReq' = [lkReq EXCEPT ![r].i = @ + 1]
          /\ lkWorker' = [lkWorker EXCEPT ![r][w] =
               [pc |-> "S", my |-> lkReq[r].i + 1,
                hit |-> <<"series", LkIds[lkReq[r].i + 1]>> \in lkCache]]
     ELSE /\ lkWorker' = [lkWorker EXCEPT ![r][w].pc = "end"]
          /\ UNCHANGED lkReq
  /\ UNCHANGED <<lkCache, lkFails, lkSeries>>

\* getMeta('series', tt) returns to the worker
ResolveSeries(r, w, ok) ==
  LET me == lkWorker[r][w]
      tt == LkIds[me.my]
      s == Got(me, "series", ok)
      next == AfterSeries(r, s)
  IN
  /\ me.pc = "S"
  /\ ok \/ (~me.hit /\ lkFails < MaxFail)
  /\ lkFails' = IF ok THEN lkFails ELSE lkFails + 1
  /\ lkCache' = IF s THEN lkCache \cup {<<"series", tt>>} ELSE lkCache
  /\ lkSeries' = IF s THEN [lkSeries EXCEPT ![r] = @ \cup {tt}] ELSE lkSeries
  /\ lkWorker' = [lkWorker EXCEPT ![r][w] =
       IF next = "movie"
       THEN [pc |-> "M", my |-> me.my, hit |-> <<"movie", tt>> \in lkCache]
       ELSE [pc |-> "loop", my |-> me.my, hit |-> FALSE]]
  /\ lkReq' = IF next = "fill" THEN [lkReq EXCEPT ![r].slots[me.my] = TRUE] ELSE lkReq

\* getMeta('movie', tt) returns to the worker
ResolveMovie(r, w, ok) ==
  LET me == lkWorker[r][w]
      tt == LkIds[me.my]
      m == Got(me, "movie", ok)
  IN
  /\ me.pc = "M"
  /\ ok \/ (~me.hit /\ lkFails < MaxFail)
  /\ lkFails' = IF ok THEN lkFails ELSE lkFails + 1
  /\ lkCache' = IF m THEN lkCache \cup {<<"movie", tt>>} ELSE lkCache
  /\ lkWorker' = [lkWorker EXCEPT ![r][w] = [pc |-> "loop", my |-> me.my, hit |-> FALSE]]
  /\ lkReq' = IF m THEN [lkReq EXCEPT ![r].slots[me.my] = TRUE] ELSE lkReq
  /\ UNCHANGED lkSeries

\* Promise.all of the workers resolves: the page is read off the slots
FinishPage(r) ==
  /\ lkReq[r].phase = "running"
  /\ \A w \in LkWorkers : lkWorker[r][w].pc = "end"
  /\ lkReq' = [lkReq EXCEPT ![r].phase = "answered"]
  /\ UNCHANGED <<lkCache, lkWorker, lkFails, lkSeries>>

\* the ids of the page a request was answered with
PageIds(r) == {LkIds[k] : k \in {j \in 1..Len(LkIds) : lkReq[r].slots[j]}}

\* ------------------------------------------------- the stats entry of mem
\* hasType calls (from the manifest handler) run concurrently with the
\* bumpStats calls that end catalog requests. getCache hands out the cached
\* object itself, so both mutate a shared object when the entry exists and
\* a private one when it does not.
Probes == {"h1", "h2"}
FreshStats == [movie |-> null, series |-> null]
IdleProbe == [pc |-> "idle", type |-> "", obj |-> 0]

InitStats ==
  /\ stItems \in [Buckets -> 0..MaxItems]
  /\ stObjs = <<>>
  /\ stMem = 0
  /\ stProbe = [h \in Probes |-> IdleProbe]
  /\ stPageMax = [t \in Buckets |-> 0]

\* getCache(ck) || { movie: null, series: null }: the reference the caller
\* works on, and the objects after the call
StatsRef == IF stMem # 0 THEN stMem ELSE Len(stObjs) + 1
StatsObjs == IF stMem # 0 THEN stObjs ELSE Append(stObjs, FreshStats)

\* hasType up to its first await: the early return, or the probe begins
HasTypeCall(h, type) ==
  /\ stProbe[h].pc = "idle"
  /\ Len(StatsObjs) <= MaxObj
  /\ IF stMem # 0 /\ stObjs[stMem][type] # null
     THEN UNCHANGED <<stObjs, stProbe>>
     ELSE /\ stObjs' = StatsObjs
          /\ stProbe' = [stProbe EXCEPT ![h] = [pc |-> "probing", type |-> type, obj |-> StatsRef]]
  /\ UNCHANGED <<stItems, stMem, stPageMax>>

\* hasType after its probes: stats[type] = count; setCache(ck, stats).
\* any is TRUE when a probe found a meta; a failed probe finds none.
HasTypeStore(h, any) ==
  LET me == stProbe[h]
      count == IF any THEN 1 ELSE 0
  IN
  /\ me.pc = "probing"
  /\ any => stItems[me.type] > 0
  /\ stObjs' = [stObjs EXCEPT ![me.obj][me.type] = count]
  /\ stMem' = me.obj
  /\ stProbe' = [stProbe EXCEPT ![h] = IdleProbe]
  /\ UNCHANGED <<stItems, stPageMax>>

\* a catalog request ends with a page of countFound items: bumpStats
PageLoaded(type, countFound) ==
  /\ countFound <= stItems[type]
  /\ Len(StatsObjs) <= MaxObj
  /\ stObjs' = [StatsObjs EXCEPT ![StatsRef] = bumpStats(StatsObjs[StatsRef], type, countFound)]
  /\ stMem' = StatsRef
  /\ stPageMax' = [stPageMax EXCEPT ![type] = Max(@, countFound)]
  /\ UNCHANGED <<stItems, stProbe>>

\* the entry outlives its TTL: getCache deletes it, a new window begins
Expire ==
  /\ stMem # 0
  /\ stMem' = 0
  /\ stPageMax' = [t \in Buckets |-> 0]
  /\ UNCHANGED <<stItems, stObjs, stProbe>>

\* the stats machine at rest
StatsParked ==
  /\ stItems = [t \in Buckets |-> 0]
  /\ stObjs = <<>>
  /\ stMem = 0
  /\ stProbe = [h \in Probes |-> IdleProbe]
  /\ stPageMax = [t \in Buckets |-> 0]

\* ------------------------------------------------- classifyAndWriteSplit
\* What the upstreams hold for the ids of the split scenarios: Cinemeta
\* metadata per bucket, the parent series and the type label of the title
\* page. Ids 4 and 5 are episodes of series 2; id 6 is a video game. Ids 7 to
\* 10 are titles with a label of the excluded kinds, some of them with
\* Cinemeta metadata.
SplitIds == 1..6
LabelIds == 6..10

\* the map of resolveTitleTypeFromImdb from the label text of the page
titleTypeKey(label) ==
  CASE label = "TV Series" -> "tvSeries"
    [] label = "TV Mini Series" -> "tvMiniSeries"
    [] label = "TV Movie" -> "tvMovie"
    [] label = "TV Special" -> "tvSpecial"
    [] label = "TV Short" -> "tvShort"
    [] label = "Short" -> "short"
    [] label = "Music Video" -> "musicVideo"
    [] label = "Video Game" -> "videoGame"
    [] label = "Podcast Series" -> "podcastSeries"
    [] label = "Podcast Episode" -> "podcastEpisode"
    [] label = "Video" -> "video"
    [] OTHER -> ""

\* String.prototype.includes
includes(t, part) ==
  \E i \in 1..(Len(t) - Len(part) + 1) : SubSeq(t, i, i + Len(part) - 1) = part

\* ---- title pages for the label step
\* A title page as resolveTitleTypeFromImdb reads it: the @type of its JSON-LD
\* block ("" when it has none the function knows) and the text of its type
\* label ("" when it has none). kind is the type label the page stands for.
TitlePageOf(ld, text, kind) == [ld |-> ld, text |-> text, kind |-> kind]

TitlePages ==
  <<TitlePageOf("Movie", "", "Movie"),
    TitlePageOf("TVSeries", "TV Series", "TV Series"),
    TitlePageOf("TVEpisode", "", "TV Episode"),
    TitlePageOf("TVMiniSeries", "", "TV Mini Series"),
    TitlePageOf("", "TV Series", "TV Series"),
    TitlePageOf("", "TV Mini Series", "TV Mini Series"),
    TitlePageOf("", "TV Movie", "TV Movie"),
    TitlePageOf("", "TV Special", "TV Special"),
    TitlePageOf("", "TV Short", "TV Short"),
    TitlePageOf("", "Short", "Short"),
    TitlePageOf("", "Video", "Video"),
    TitlePageOf("", "Music Video", "Music Video"),
    TitlePageOf("", "Video Game", "Video Game"),
    TitlePageOf("", "Podcast Series", "Podcast Series"),
    TitlePageOf("", "Podcast Episode", "Podcast Episode"),
    TitlePageOf("", "", "")>>

\* the ids of the titles with these pages, after LabelIds
TitleIds == 11..(10 + Len(TitlePages))
TitlePage(tt) == TitlePages[tt - 10]

\* resolveTitleTypeFromImdb: the JSON-LD @type first, then the label text
resolveTitleTypeFromImdb(page) ==
  LET t == toLowerCase(page.ld)
  IN  IF t = "movie" THEN "movie"
      ELSE IF t = "tvseries" THEN "tvSeries"
      ELSE IF t \in {"tvepisode", "episode"} THEN "tvEpisode"
      ELSE IF t = "tvminiseries" \/ includes(t, "miniseries") THEN "tvMiniSeries"
      ELSE titleTypeKey(page.text)

SplitUp ==
  [tt \in SplitIds \cup LabelIds \cup TitleIds |->
     CASE tt = 1 -> [movie |-> TRUE, series |-> FALSE, parent |-> 0, label |-> "movie"]
       [] tt = 2 -> [movie |-> FALSE, series |-> TRUE, parent |-> 0, label |-> "tvSeries"]
       [] tt = 3 -> [movie |-> TRUE, series |-> TRUE, parent |-> 0, label |-> "tvSeries"]
       [] tt = 4 -> [movie |-> FALSE, series |-> FALSE, parent |-> 2, label |-> "tvEpisode"]
       [] tt = 5 -> [movie |-> FALSE, series |-> FALSE, parent |-> 2, label |-> "tvEpisode"]
       [] tt = 7 -> [movie |-> TRUE, series |-> FALSE, parent |-> 0,
                     label |-> titleTypeKey("Video Game")]
       [] tt = 8 -> [movie |-> FALSE, series |-> TRUE, parent |-> 0,
                     label |-> titleTypeKey("Podcast Series")]
       [] tt = 9 -> [movie |-> TRUE, series |-> FALSE, parent |-> 0,
                     label |-> titleTypeKey("Music Video")]
       [] tt = 10 -> [movie |-> FALSE, series |-> FALSE, parent |-> 0,
                      label |-> titleTypeKey("Podcast Episode")]
       [] tt \in TitleIds -> [movie |-> FALSE, series |-> FALSE, parent |-> 0,
                              label |-> resolveTitleTypeFromImdb(TitlePage(tt))]
       [] OTHER -> [movie |-> FALSE, series |-> FALSE, parent |-> 0, label |-> "videoGame"]]

\* mapTitleTypeToBucket
mapTitleTypeToBucket(ttype) ==
  LET t == toLowerCase(ttype)
  IN  IF ttype = "" THEN "unknown"
      ELSE IF includes(t, "music video")
           THEN (IF INCLUDE_MUSIC_VIDEO THEN "movie" ELSE "exclude")
      ELSE IF includes(t, "video game") THEN "exclude"
      ELSE IF includes(t, "podcast") THEN "exclude"
      ELSE IF \/ t = "movie" \/ includes(t, "tv movie") \/ includes(t, "tv special")
              \/ includes(t, "short") \/ includes(t, "tv short")
              \/ t = "video" \/ includes(t, "video")
           THEN "movie"
      ELSE IF \/ includes(t, "tv series") \/ includes(t, "tv miniseries")
              \/ includes(t, "tv mini series") \/ includes(t, "miniseries")
              \/ includes(t, "mini series")
           THEN "series"
      ELSE IF includes(t, "episode") THEN "episode"
      ELSE "unknown"

\* the upstream requests of one worker invocation that can fail
Fetches == {"m1", "s1", "p", "pm", "l", "m2", "s2", "p2", "pm2", "throw"}

Result(type, id, mapped) == [type |-> type, id |-> id, mapped |-> mapped]
Pending == Result("pending", 0, 0)

\* a worker whose label step commits a title labelled as a movie or a series
ClassifyOne_byLabel(tt, f) ==
  LET up == SplitUp[tt]
      mMeta == up.movie /\ "m1" \notin f
      sMeta == up.series /\ "s1" \notin f
      parent == IF "p" \in f THEN 0 ELSE up.parent
      pMeta == parent # 0 /\ SplitUp[parent].series /\ "pm" \notin f
      bucket == mapTitleTypeToBucket(IF "l" \in f THEN "" ELSE up.label)
  IN  IF "throw" \in f THEN Result("null", 0, 0)
      ELSE IF mMeta /\ ~sMeta THEN Result("movie", tt, 0)
      ELSE IF sMeta THEN Result("series", tt, 0)
      ELSE IF parent # 0 /\ parent # tt /\ pMeta THEN Result("series", parent, parent)
      ELSE IF bucket \in {"movie", "series"} THEN Result(bucket, tt, 0)
      ELSE Result("exclude", 0, 0)

\* a worker that commits what it cannot resolve
ClassifyOne_guess(tt, f) == Result("movie", tt, 0)

\* the worker of classifyAndWriteSplit for id tt when the requests in f fail:
\* "null" when the invocation throws (pool stores null)
ClassifyOne(tt, f) ==
  LET up == SplitUp[tt]
      mMeta == up.movie /\ "m1" \notin f
      sMeta == up.series /\ "s1" \notin f
      parent == IF "p" \in f THEN 0 ELSE up.parent
      pMeta == parent # 0 /\ SplitUp[parent].series /\ "pm" \notin f
      bucket == mapTitleTypeToBucket(IF "l" \in f THEN "" ELSE up.label)
      parent2 == IF parent # 0 THEN parent ELSE IF "p2" \in f THEN 0 ELSE up.parent
      s2 == parent2 # 0 /\ SplitUp[parent2].series /\ "pm2" \notin f
  IN  IF "throw" \in f THEN Result("null", 0, 0)
      ELSE IF mMeta /\ ~sMeta THEN Result("movie", tt, 0)
      ELSE IF sMeta THEN Result("series", tt, 0)
      ELSE IF parent # 0 /\ parent # tt /\ pMeta THEN Result("series", parent, parent)
      ELSE IF bucket = "movie"
           THEN (IF up.movie /\ "m2" \notin f THEN Result("movie", tt, 0)
                 ELSE Result("exclude", 0, 0))
      ELSE IF bucket = "series"
           THEN (IF up.series /\ "s2" \notin f THEN Result("series", tt, 0)
                 ELSE Result("exclude", 0, 0))
      ELSE IF bucket = "episode"
           THEN (IF parent2 # 0 /\ parent2 # tt /\ s2 THEN Result("series", parent2, parent2)
                 ELSE Result("exclude", 0, 0))
      ELSE Result("exclude", 0, 0)

\* a dedupe that keeps every item
uniqById_keepAll(arr) == arr

\* uniqById: the first occurrence of every id, in order
uniqById(arr) ==
  LET out == SelectSeq([k \in 1..Len(arr) |-> <<k, arr[k]>>],
                       LAMBDA x : \A j \in 1..(x[1] - 1) : arr[j] # x[2])
  IN  [k \in 1..Len(out) |-> out[k][2]]

\* a merge that walks the results from the last to the first
Pushed_lastFirst(results, type) ==
  LET back == [k \in 1..Len(results) |-> results[Len(results) + 1 - k]]
      hits == SelectSeq(back, LAMBDA r : r.type = type)
  IN  [k \in 1..Len(hits) |-> hits[k].id]

\* the ids pushed for one bucket, in the order of results
Pushed(results, type) ==
  LET hits == SelectSeq(results, LAMBDA r : r.type = type)
  IN  [k \in 1..Len(hits) |-> hits[k].id]

InitSplit ==
  /\ spIds \in UNION {[1..n -> SplitIds] : n \in 0..MaxSplit}
  /\ spPhase = "idle"
  /\ spNext = 0
  /\ spRun = {}
  /\ spAwaited = {}
  /\ spRes = [k \in 1..Len(spIds) |-> Pending]
  /\ spMovies = <<>>
  /\ spSeries = <<>>
  /\ spEpMap = {}
  /\ spFails = 0
  /\ INCLUDE_MUSIC_VIDEO = FALSE

\* a list of titles with excluded labels, under either setting
InitLabels ==
  /\ spIds \in UNION {[1..n -> LabelIds] : n \in 0..MaxLabelled}
  /\ spPhase = "idle"
  /\ spNext = 0
  /\ spRun = {}
  /\ spAwaited = {}
  /\ spRes = [k \in 1..Len(spIds) |-> Pending]
  /\ spMovies = <<>>
  /\ spSeries = <<>>
  /\ spEpMap = {}
  /\ spFails = 0
  /\ INCLUDE_MUSIC_VIDEO \in BOOLEAN

\* a list of titles that only the label step can decide, under either setting
InitTitles ==
  /\ spIds \in UNION {[1..n -> TitleIds] : n \in 0..MaxLabelled}
  /\ spPhase = "idle"
  /\ spNext = 0
  /\ spRun = {}
  /\ spAwaited = {}
  /\ spRes = [k \in 1..Len(spIds) |-> Pending]
  /\ spMovies = <<>>
  /\ spSeries = <<>>
  /\ spEpMap = {}
  /\ spFails = 0
  /\ INCLUDE_MUSIC_VIDEO \in BOOLEAN

\* a pool that starts a worker for every item at once
PoolStart_all ==
  /\ spPhase = "idle"
  /\ spPhase' = "pooling"
  /\ spNext' = Len(spIds)
  /\ spRun' = 1..Len(spIds)
  /\ spAwaited' = 1..Len(spIds)
  /\ UNCHANGED <<spIds, spRes, spMovies, spSeries, spEpMap, spFails, INCLUDE_MUSIC_VIDEO>>

\* pool up to its Promise.allSettled: the first limit items are handed out
PoolStart ==
  LET first == Min(CONCURRENCY, Len(spIds))
  IN
  /\ spPhase = "idle"
  /\ spPhase' = "pooling"
  /\ spNext' = first
  /\ spRun' = 1..first
  /\ spAwaited' = 1..first
  /\ UNCHANGED <<spIds, spRes, spMovies, spSeries, spEpMap, spFails, INCLUDE_MUSIC_VIDEO>>

\* a worker invocation settles; its finally block hands out the next item
WorkerSettles(idx, f) ==
  /\ idx \in spRun
  /\ spFails + Cardinality(f) <= MaxFail
  /\ spFails' = spFails + Cardinality(f)
  /\ spRes' = [spRes EXCEPT ![idx] = ClassifyOne(spIds[idx], f)]
  /\ IF spNext < Len(spIds)
     THEN /\ spNext' = spNext + 1
          /\ spRun' = (spRun \ {idx}) \cup {spNext + 1}
     ELSE /\ spNext' = spNext
          /\ spRun' = spRun \ {idx}
  /\ UNCHANGED <<spIds, spPhase, spAwaited, spMovies, spSeries, spEpMap, INCLUDE_MUSIC_VIDEO>>

\* Promise.allSettled resolves once the promises it was given have settled;
\* the snapshots are built from results as they are then, and written
WriteSplit ==
  /\ spPhase = "pooling"
  /\ spAwaited \cap spRun = {}
  /\ spPhase' = "written"
  /\ spMovies' = (uniqById(Pushed(spRes, "movie")))
  /\ spSeries' = (uniqById(Pushed(spRes, "series")))
  /\ spEpMap' = {<<spIds[k], spRes[k].mapped>> :
                   k \in {j \in 1..Len(spIds) : spRes[j].type = "series" /\ spRes[j].mapped # 0}}
  /\ UNCHANGED <<spIds, spNext, spRun, spAwaited, spRes, spFails, INCLUDE_MUSIC_VIDEO>>

\* the split machine at rest
SplitParked ==
  /\ spIds = <<>>
  /\ spPhase = "idle"
  /\ spNext = 0
  /\ spRun = {}
  /\ spAwaited = {}
  /\ spRes = <<>>
  /\ spMovies = <<>>
  /\ spSeries = <<>>
  /\ spEpMap = {}
  /\ spFails = 0
  /\ INCLUDE_MUSIC_VIDEO = FALSE

\* ------------------------------------------------------------- warmList
\* What Cinemeta answers per bucket for the ids of the warm scenarios:
\* "notfound" (not ok), "empty" (ok, no meta in the payload), "movie" (a meta
\* of type movie), "series" (a meta that looks like a series), "plain" (a
\* meta with no type, videos or seasons). A request can also fail: "fail".
WarmIds == <<1, 2, 3, 4, 5>>
WarmUp ==
  [tt \in 1..Len(WarmIds) |->
     CASE tt = 1 -> [m |-> "movie", s |-> "notfound"]
       [] tt = 2 -> [m |-> "notfound", s |-> "series"]
       [] tt = 3 -> [m |-> "movie", s |-> "series"]
       [] tt = 4 -> [m |-> "movie", s |-> "empty"]
       [] OTHER -> [m |-> "movie", s |-> "plain"]]

\* m.status === 'fulfilled' && m.value.ok
RespOk(kind) == kind \notin {"fail", "notfound"}

\* safeMeta(resp) is a meta
HasMeta(kind) == kind \in {"movie", "series", "plain"}

\* looksLikeSeries(sm)
looksLikeSeries(kind) == kind = "series"

\* classifyAndFetch(tt, {}) for the responses m and s: the type it returns
\* ("" for null) and whether it returns a meta
classifyAndFetch(m, s) ==
  LET okM == RespOk(m)
      okS == RespOk(s)
  IN  IF okM /\ ~okS THEN [type |-> "movie", meta |-> HasMeta(m)]
      ELSE IF okS /\ ~okM THEN [type |-> "series", meta |-> HasMeta(s)]
      ELSE IF okS /\ okM
      THEN (IF looksLikeSeries(s) THEN [type |-> "series", meta |-> TRUE]
            ELSE IF m = "movie" THEN [type |-> "movie", meta |-> TRUE]
            ELSE [type |-> "series", meta |-> HasMeta(s)])
      ELSE [type |-> "", meta |-> FALSE]

Refreshes == {"preload", "autowarm"}
NoFile == [pass |-> 0, ids |-> <<>>]
IdleJob == [phase |-> "idle", pass |-> 0, pos |-> 0, movies |-> <<>>, series |-> <<>>]

InitWarm ==
  /\ wmFile = [b \in Buckets |-> NoFile]
  /\ wmJob = [r \in Refreshes |-> IdleJob]
  /\ wmPasses = 0
  /\ wmFails = 0
  /\ wmBothOk = [r \in Refreshes |-> {}]

\* warmList is called: the ids are collected, the classification loop begins
WarmStart(r) ==
  /\ wmJob[r].phase = "idle"
  /\ wmPasses < MaxPass
  /\ wmPasses' = wmPasses + 1
  /\ wmJob' = [wmJob EXCEPT ![r] = [IdleJob EXCEPT !.phase = "classify", !.pass = wmPasses + 1]]
  /\ wmBothOk' = [wmBothOk EXCEPT ![r] = {}]
  /\ UNCHANGED <<wmFile, wmFails>>

\* one turn of the loop: classifyAndFetch(tt) returns and the item is pushed
WarmClassify(r, failM, failS) ==
  LET job == wmJob[r]
      tt == WarmIds[job.pos + 1]
      m == IF failM THEN "fail" ELSE WarmUp[tt].m
      s == IF failS THEN "fail" ELSE WarmUp[tt].s
      c == classifyAndFetch(m, s)
      failed == (IF failM THEN 1 ELSE 0) + (IF failS THEN 1 ELSE 0)
      keep == c.type # "" /\ c.meta
  IN
  /\ job.phase = "classify"
  /\ job.pos < Len(WarmIds)
  /\ wmFails + failed <= MaxFail
  /\ wmFails' = wmFails + failed
  /\ wmJob' = [wmJob EXCEPT ![r] =
       [job EXCEPT !.pos = @ + 1,
                   !.movies = IF keep /\ c.type # "series" THEN Append(@, tt) ELSE @,
                   !.series = IF keep /\ c.type = "series" THEN Append(@, tt) ELSE @]]
  /\ wmBothOk' = IF RespOk(m) /\ RespOk(s) /\ HasMeta(m) /\ HasMeta(s)
                  THEN [wmBothOk EXCEPT ![r] = @ \cup {tt}] ELSE wmBothOk
  /\ UNCHANGED <<wmFile, wmPasses>>

\* await writeCache(uid, lsid, 'movies', movies)
WarmWriteMovies(r) ==
  /\ wmJob[r].phase = "classify"
  /\ wmJob[r].pos = Len(WarmIds)
  /\ wmFile' = [wmFile EXCEPT !["movie"] = [pass |-> wmJob[r].pass, ids |-> wmJob[r].movies]]
  /\ wmJob' = [wmJob EXCEPT ![r].phase = "movies-written"]
  /\ UNCHANGED <<wmPasses, wmFails, wmBothOk>>

\* await writeCache(uid, lsid, 'series', series); warmList returns
WarmWriteSeries(r) ==
  /\ wmJob[r].phase = "movies-written"
  /\ wmFile' = [wmFile EXCEPT !["series"] = [pass |-> wmJob[r].pass, ids |-> wmJob[r].series]]
  /\ wmJob' = [wmJob EXCEPT ![r].phase = "idle"]
  /\ UNCHANGED <<wmPasses, wmFails, wmBothOk>>

\* ---------------------------------------------------------- sortMetas alone
\* One item set is sorted by rating in both orders, the way handleCatalog
\* calls sortMetas. The rating of an item is a number or is missing (null).
SortOrders == {"asc", "desc"}
NotSorted == [done |-> FALSE, metas |-> <<>>]
SortItem(k, r) == Meta(k, "movie", "Alpha", <<"Comedy">>, r)

InitSort ==
  /\ soArr \in UNION {{[k \in 1..n |-> SortItem(k, rs[k])] : rs \in [1..n -> {null, 1, 2}]} :
                        n \in 0..MaxSort}
  /\ soOut = [o \in SortOrders |-> NotSorted]

\* the sort step of handleCatalog for ?sort=<sort>&order=<order>
SortRequest(sort, order) ==
  LET key == normalizeSortKey(sort)
      ord == normalizeOrder(order)
  IN  /\ key = "rating"
      /\ soOut' = [soOut EXCEPT ![ord] = [done |-> TRUE, metas |-> sortMetas(soArr, key, ord)]]
      /\ UNCHANGED soArr

\* the sort machine at rest
SortParked ==
  /\ soArr = <<>>
  /\ soOut = [o \in SortOrders |-> NotSorted]

\* ------------------------------------------------- the genre canonicalizer
\* Raw genre fields are exploded one at a time, and a list whose items carry
\* compound or single genre tags is queried by genre.
CompoundLabels == {"Action & Adventure", "Sci-Fi & Fantasy"}

\* the labels of the raw genre fields
GenreLabels ==
  DEFAULT_GENRES \cup CompoundLabels
    \cup {"Action, Drama", "Crime/Drama", "Action and Adventure", "sci fi", "Docs", "Kids"}

\* the multi-valued genre arrays
GenreLists == {<<"Sci-Fi & Fantasy", "Drama">>, <<"Action & Adventure", "Action">>, <<>>}

\* the genre tags of one item of the queried list
GenreTags == {<<"Sci-Fi & Fantasy">>, <<"Action & Adventure">>, <<"Fantasy">>, <<"Comedy">>}

\* an upstream where id k is a movie tagged tags[k]
TaggedUpstream(tags) ==
  [key \in Buckets \X Ids |->
     IF key[1] = "movie" /\ key[2] <= Len(tags)
     THEN Meta(key[2], "movie", "Alpha", tags[key[2]], 1)
     ELSE NoMeta]

InitGenre ==
  /\ gnRaw = GenreArray(<<>>)
  /\ gnSet = {}
  /\ imdbList = <<1, 2>>
  /\ cinemeta \in {TaggedUpstream(<<tag, <<"Drama">> >>) : tag \in GenreTags}
  /\ lists = <<Entry("", "u", "u")>>
  /\ gateOn = FALSE
  /\ InitServing

\* explodeToCanonicalSet(raw) is called
Explode(raw) ==
  /\ gnRaw' = raw
  /\ gnSet' = explodeToCanonicalSet(raw)

GenreParams ==
  {[type |-> "movie", idKind |-> "movies", genre |-> g, search |-> "", sort |-> "",
    order |-> "", skip |-> 0, limit |-> 0, cookie |-> "ok", path |-> "ok"] :
     g \in {"", "Fantasy", "Sci-Fi", "Adventure", "Comedy", "Action & Adventure",
            "Sci-Fi & Fantasy"}}

\* the genre machine at rest
GenreParked ==
  /\ gnRaw = GenreArray(<<>>)
  /\ gnSet = {}

\* ------------------------------------------- manifest and list management
\* The user has at most one list entry, for LSID. Manifest requests, PATCH
\* requests and catalog page loads are served one after the other.
NoVisibility == [movie |-> [discover |-> "u", home |-> "u"],
                 series |-> [discover |-> "u", home |-> "u"]]

\* hasType(lsid, type) against an upstream that answers: what it returns and
\* the stats entry it leaves in mem
hasType(stats, up, ids, type) ==
  LET sampled == Slice(ids, 0, SAMPLE)
      any == \E k \in 1..Len(sampled) : getMeta(up, type, sampled[k]) # NoMeta
  IN  IF stats[type] # null
      THEN [any |-> stats[type] > 0, stats |-> stats]
      ELSE [any |-> any, stats |-> [stats EXCEPT ![type] = IF any THEN 1 ELSE 0]]

\* the catalogs GET /manifest.json pushes for the entry l
CatalogsOf(l, hasMovies, hasSeries) ==
  LET visM == visibilityFor(l, "movie")
      visS == visibilityFor(l, "series")
  IN  (IF hasMovies /\ (visM.discover \/ visM.home) THEN {<<l.id, "movie">>} ELSE {})
      \cup (IF hasSeries /\ (visS.discover \/ visS.home) THEN {<<l.id, "series">>} ELSE {})

NoVis == [b \in Buckets |-> [discover |-> FALSE, home |-> FALSE]]

\* GET /manifest.json
Manifest ==
  LET hm == hasType(memStats, cinemeta, imdbList, "movie")
      hs == hasType(hm.stats, cinemeta, imdbList, "series")
  IN
  /\ mfFor' = lists
  /\ IF lists = <<>>
     THEN /\ mfCatalogs' = {}
          /\ mfVis' = NoVis
          /\ UNCHANGED <<memLs, memStats>>
     ELSE /\ mfCatalogs' = CatalogsOf(lists[1], hm.any, hs.any)
          /\ mfVis' = [b \in Buckets |-> visibilityFor(lists[1], b)]
          /\ memStats' = hs.stats
          /\ memLs' = (memLs \/ memStats # hs.stats)
  /\ mfTrail' = CASE mfTrail = "hidden" -> "hidden-manifest"
                  [] mfTrail = "discover" -> "discover-manifest"
                  [] OTHER -> mfTrail
  /\ UNCHANGED <<imdbList, cinemeta, lists, gateOn, memMeta, req, res, servedFor, served>>

\* /discover|both/i.test(showIn) and /home|both/i.test(showIn)
ShowInTest(flag, showIn) ==
  IF flag = "discover" THEN showIn \in {"discover", "both"} ELSE showIn \in {"home", "both"}

\* one flag of obj.visibility as PATCH writes it for an entry it found
PatchedFlag(obj, body, side, flag) ==
  LET given == body.visibility[side][flag]
      kept == obj.visibility[side][flag]
      fallback == IF obj.showIn # "" THEN ShowInTest(flag, ToLower(obj.showIn))
                  ELSE flag = "discover"
  IN  IF given # "u" THEN given
      ELSE IF kept # "u" THEN kept
      ELSE IF fallback THEN "t" ELSE "f"

\* the entry PATCH writes for the body; found is FALSE when it creates one
PatchedEntry(x, body, found) ==
  LET obj == [x EXCEPT !.showIn = IF body.showIn # "" THEN body.showIn ELSE @]
  IN  IF ~body.hasVisibility THEN obj
      ELSE IF ~found THEN [obj EXCEPT !.visibility = body.visibility]
      ELSE [obj EXCEPT !.visibility =
              [side \in {"movie", "series"} |->
                 [flag \in {"discover", "home"} |-> PatchedFlag(obj, body, side, flag)]]]

\* PATCH /api/user/:uid/lists/:lsid with body {showIn, visibility}
PatchList(body) ==
  /\ lists' = IF \E k \in 1..Len(lists) : lists[k].id = LSID
              THEN [k \in 1..Len(lists) |->
                      IF lists[k].id = LSID THEN PatchedEntry(lists[k], body, TRUE)
                      ELSE lists[k]]
              ELSE Append(lists, PatchedEntry([EmptyEntry EXCEPT !.id = LSID], body, FALSE))
  /\ mfTrail' = IF body.hasVisibility THEN ""
                ELSE IF body.showIn = "hidden" THEN "hidden"
                ELSE IF body.showIn = "discover" /\ mfTrail = "hidden-manifest" THEN "discover"
                ELSE ""
  /\ UNCHANGED <<imdbList, cinemeta, gateOn, memLs, memMeta, memStats, req, res,
                 servedFor, served, mfCatalogs, mfFor, mfVis>>

\* the bodies of the PATCH requests
PatchBody(showIn, md, mh) ==
  [showIn |-> showIn, hasVisibility |-> <<md, mh>> # <<"u", "u">>,
   visibility |-> [NoVisibility EXCEPT !.movie = [discover |-> md, home |-> mh]]]

PatchBodies ==
  {PatchBody(sh, v[1], v[2]) :
     sh \in {"", "hidden", "discover", "home", "both"},
     v \in {<<"u", "u">>, <<"t", "u">>, <<"f", "f">>}}

\* plain page loads of the two catalogs
PlainParams ==
  {[type |-> t[1], idKind |-> t[2], genre |-> "", search |-> "", sort |-> "",
    order |-> "", skip |-> 0, limit |-> 0, cookie |-> "ok", path |-> "ok"] :
     t \in {<<"movie", "movies">>, <<"series", "series">>}}

\* the lists of the manifest scenarios, over the ids of MixedUpstream
ManifestLists == {<<>>, <<3>>, <<1, 2>>, <<2, 3>>, <<2, 2, 1>>}

InitManifest ==
  /\ imdbList \in ManifestLists
  /\ cinemeta = MixedUpstream
  /\ lists \in {<<>>, <<[EmptyEntry EXCEPT !.id = LSID, !.showIn = "discover"]>>}
  /\ gateOn = FALSE
  /\ InitServing
  /\ mfCatalogs = {}
  /\ mfFor = <<>>
  /\ mfVis = NoVis
  /\ mfTrail = ""

\* ---- the v2 server
\* hasType of the v2 server: a non-empty snapshot file of the type decides,
\* else the first SAMPLE_V2 ids are probed
hasTypeV2(stats, file, up, ids, type) ==
  LET sampled == Slice(ids, 0, SAMPLE_V2)
      any == \/ Len(file.ids) > 0
             \/ \E k \in 1..Len(sampled) : getMeta(up, type, sampled[k]) # NoMeta
  IN  IF stats[type] # null
      THEN [any |-> stats[type] > 0, stats |-> stats]
      ELSE [any |-> any, stats |-> [stats EXCEPT ![type] = IF any THEN 1 ELSE 0]]

\* GET /manifest.json of the v2 server. Its two hasType calls run in
\* parallel: with no stats entry in mem each works on an object of its own
\* and the one that finishes last leaves the entry.
ManifestV2 ==
  LET hm == hasTypeV2(memStats, wmFile["movie"], cinemeta, imdbList, "movie")
      hs == hasTypeV2(memStats, wmFile["series"], cinemeta, imdbList, "series")
  IN
  /\ mfFor' = lists
  /\ IF lists = <<>>
     THEN /\ mfCatalogs' = {}
          /\ mfVis' = NoVis
          /\ UNCHANGED <<memLs, memStats>>
     ELSE /\ mfCatalogs' = (IF hm.any THEN {<<lists[1].id, "movie">>} ELSE {})
                             \cup (IF hs.any THEN {<<lists[1].id, "series">>} ELSE {})
          /\ mfVis' = [b \in Buckets |-> visibilityFor(lists[1], b)]
          /\ memStats' \in IF memStats = FreshStats
                            THEN {hm.stats, hs.stats}
                            ELSE {[movie |-> hm.stats["movie"], series |-> hs.stats["series"]]}
          /\ memLs' = TRUE
  /\ mfTrail' = CASE mfTrail = "hidden" -> "hidden-manifest"
                  [] mfTrail = "discover" -> "discover-manifest"
                  [] OTHER -> mfTrail
  /\ UNCHANGED <<imdbList, cinemeta, lists, gateOn, memMeta, req, res, servedFor, served>>

\* PATCH /api/user/:uid/lists/:lsid of the v2 server, body {showIn}
PatchListV2(showIn) ==
  /\ lists' = [k \in 1..Len(lists) |->
                IF lists[k].id = LSID
                THEN [lists[k] EXCEPT !.showIn = IF showIn # "" THEN showIn
                                                 ELSE IF @ # "" THEN @ ELSE "discover"]
                ELSE lists[k]]
  /\ mfTrail' = IF showIn = "hidden" THEN "hidden"
                ELSE IF showIn = "discover" /\ mfTrail = "hidden-manifest" THEN "discover"
                ELSE ""
  /\ UNCHANGED <<imdbList, cinemeta, gateOn, memLs, memMeta, memStats, req, res,
                 servedFor, served, mfCatalogs, mfFor, mfVis>>

\* the snapshot files a finished classification pass left for the list
SnapshotOf(ids, type) ==
  [pass |-> 1,
   ids |-> SelectSeq(ids, LAMBDA tt : getTypedMetaDeterministic(MixedUpstream, type, tt) # NoMeta)]

InitManifestV2 ==
  /\ InitManifest
  /\ wmFile \in {[b \in Buckets |-> NoFile], [b \in Buckets |-> SnapshotOf(imdbList, b)]}
  /\ wmJob = [r \in Refreshes |-> IdleJob]
  /\ wmPasses = 0
  /\ wmFails = 0
  /\ wmBothOk = [r \in Refreshes |-> {}]

\* ---- the extras of a catalog request
Digits == {"0", "1", "2", "3", "4", "5", "6", "7", "8", "9"}

\* String.prototype.split for a one-character separator: the parts between
\* the places of the separator
split(s, sep) ==
  LET n == Len(s)
      seps == {i \in 1..n : SubSeq(s, i, i) = sep}
      m == Cardinality(seps)
      place(k) == IF k = 0 THEN 0
                  ELSE IF k = m + 1 THEN n + 1
                  ELSE CHOOSE i \in seps : Cardinality({j \in seps : j < i}) = k - 1
  IN  [k \in 1..(m + 1) |-> SubSeq(s, place(k - 1) + 1, place(k) - 1)]

\* v.replace(/\.json$/i, '')
stripJson(v) ==
  IF Len(v) >= 5 /\ toLowerCase(SubSeq(v, Len(v) - 4, Len(v))) = ".json"
  THEN SubSeq(v, 1, Len(v) - 5)
  ELSE v

\* decodeURIComponent, for the escapes the requests carry: %20 and %26
RECURSIVE decodeURIComponent(_)
decodeURIComponent(s) ==
  IF s = "" THEN ""
  ELSE IF Len(s) >= 3 /\ SubSeq(s, 1, 3) = "%20"
       THEN " " \o decodeURIComponent(SubSeq(s, 4, Len(s)))
  ELSE IF Len(s) >= 3 /\ SubSeq(s, 1, 3) = "%26"
       THEN "&" \o decodeURIComponent(SubSeq(s, 4, Len(s)))
  ELSE Head(s) \o decodeURIComponent(Tail(s))

\* the decoding of URLSearchParams: a plus sign is a space as well
RECURSIVE plusToSpace(_)
plusToSpace(s) ==
  IF s = "" THEN ""
  ELSE (IF Head(s) = "+" THEN " " ELSE Head(s)) \o plusToSpace(Tail(s))

formDecode(s) == decodeURIComponent(plusToSpace(s))

\* the text after the first "=" of a name=value piece ("" without one)
RECURSIVE afterEquals(_)
afterEquals(s) ==
  IF s = "" THEN ""
  ELSE IF Head(s) = "=" THEN Tail(s)
  ELSE afterEquals(Tail(s))

\* new URLSearchParams(str).entries(): the <<name, value>> pairs in order
URLSearchParams(str) ==
  LET pieces == SelectSeq(split(str, "&"), LAMBDA piece : piece # "")
  IN  [k \in 1..Len(pieces) |->
         <<formDecode(split(pieces[k], "=")[1]), formDecode(afterEquals(pieces[k]))>>]

NoExtras == [k \in {} |-> ""]

\* Object.fromEntries: a later pair of the same name overwrites
RECURSIVE fromEntries(_)
fromEntries(pairs) ==
  IF pairs = <<>> THEN NoExtras
  ELSE LET last == pairs[Len(pairs)]
       IN  (last[1] :> last[2]) @@ fromEntries(SubSeq(pairs, 1, Len(pairs) - 1))

\* extras[k], "" standing for undefined
Extra(extras, k) == IF k \in DOMAIN extras THEN extras[k] ELSE ""

\* req.path and the query part of req.url
PathOf(url) == split(url, "?")[1]
QueryStringOf(url) == IF Len(split(url, "?")) >= 2 THEN split(url, "?")[2] ELSE ""

\* req.path.split('/').filter(Boolean)
SegsOf(url) == SelectSeq(split(PathOf(url), "/"), LAMBDA seg : seg # "")

\* the loop of readExtras over the tail, two segments at a time
RECURSIVE tailExtras(_, _)
tailExtras(tail, extras) ==
  IF tail = <<>> THEN extras
  ELSE LET k == tail[1]
           v == stripJson(IF Len(tail) >= 2 THEN tail[2] ELSE "")
           rest == IF Len(tail) >= 2 THEN SubSeq(tail, 3, Len(tail)) ELSE <<>>
       IN  tailExtras(rest,
                      IF k # "" /\ v # ""
                      THEN (k :> decodeURIComponent(v)) @@ extras
                      ELSE extras)

\* readExtras
readExtras(url) ==
  LET extras == fromEntries(URLSearchParams(QueryStringOf(url)))
      segs == SegsOf(url)
      found == {i \in 1..Len(segs) : segs[i] = "catalog"}
      idx == IF found = {} THEN 0 ELSE CHOOSE i \in found : \A j \in found : i <= j
  IN  IF idx >= 1 /\ Len(segs) > idx + 2
      THEN tailExtras(SubSeq(segs, idx + 3, Len(segs)), extras)
      ELSE extras

\* the genre of the path, /genre/<g>.json at its end
PathGenre(url) ==
  LET parts == split(PathOf(url), "/")
      n == Len(parts)
  IN  IF /\ n >= 3
         /\ toLowerCase(parts[n - 1]) = "genre"
         /\ parts[n] # stripJson(parts[n])
         /\ Len(parts[n]) > 5
      THEN decodeURIComponent(stripJson(parts[n]))
      ELSE ""

\* getGenreFromReq
getGenreFromReq(url) ==
  LET qg == Extra(fromEntries(
              LET q == URLSearchParams(QueryStringOf(url))
              IN  [k \in 1..Len(q) |-> q[Len(q) + 1 - k]]), "genre")
  IN  IF qg # "" THEN decodeURIComponent(qg) ELSE PathGenre(url)

\* parseExtrasFromParam
parseExtrasFromParam(url) ==
  LET comps == split(url, "/")
      last == stripJson(split(comps[Len(comps)], "?")[1])
  IN  fromEntries(URLSearchParams(last))

\* { ...parseExtrasFromParam(req), ...readExtras(req) }
ExtrasOf(url) == readExtras(url) @@ parseExtrasFromParam(url)

DigitOf(c) ==
  CASE c = "0" -> 0 [] c = "1" -> 1 [] c = "2" -> 2 [] c = "3" -> 3 [] c = "4" -> 4
    [] c = "5" -> 5 [] c = "6" -> 6 [] c = "7" -> 7 [] c = "8" -> 8 [] c = "9" -> 9

\* parseInt(s, 10) of an unsigned text; NaN is 0 here, as both callers
\* read it with || and a default
RECURSIVE parseIntFrom(_, _)
parseIntFrom(s, acc) ==
  IF s = "" \/ Head(s) \notin Digits THEN acc
  ELSE parseIntFrom(Tail(s), 10 * acc + DigitOf(Head(s)))

parseInt(s) == parseIntFrom(trim(s), 0)

\* (movies|series)$ of the catalog id
KindOf(catalogId) ==
  LET n == Len(catalogId)
      low == toLowerCase(catalogId)
  IN  IF n >= 7 /\ SubSeq(low, n - 6, n) = "-movies" THEN "movies"
      ELSE IF n >= 7 /\ SubSeq(low, n - 6, n) = "-series" THEN "series"
      ELSE "bad"

\* what handleCatalog reads from the request: req.params and the extras
ParamsOf(url) ==
  LET segs == SegsOf(url)
      extras == ExtrasOf(url)
  IN  [type |-> segs[2],
       idKind |-> KindOf(stripJson(segs[3])),
       genre |-> IF Extra(extras, "genre") # "" THEN Extra(extras, "genre")
                 ELSE getGenreFromReq(url),
       search |-> trim(Extra(extras, "search")),
       sort |-> Extra(extras, "sort"),
       order |-> Extra(extras, "order"),
       skip |-> parseInt(Extra(extras, "skip")),
       limit |-> parseInt(Extra(extras, "limit")),
       cookie |-> "ok",
       path |-> "ok"]

\* encodeURIComponent of the client, for the characters the values carry
RECURSIVE encodeURIComponent(_)
encodeURIComponent(s) ==
  IF s = "" THEN ""
  ELSE (CASE Head(s) = " " -> "%20" [] Head(s) = "&" -> "%26" [] OTHER -> Head(s))
         \o encodeURIComponent(Tail(s))

\* name=value pieces joined with "&"
RECURSIVE joinPairs(_)
joinPairs(pairs) ==
  IF pairs = <<>> THEN ""
  ELSE pairs[1][1] \o "=" \o encodeURIComponent(pairs[1][2])
         \o (IF Len(pairs) > 1 THEN "&" ELSE "") \o joinPairs(Tail(pairs))

\* /name/value path segments
RECURSIVE joinSegments(_)
joinSegments(pairs) ==
  IF pairs = <<>> THEN ""
  ELSE "/" \o pairs[1][1] \o "/" \o encodeURIComponent(pairs[1][2])
         \o joinSegments(Tail(pairs))

CatalogBase == "/catalog/movie/imdb-u-ls1-movies"

\* the URL a client writes: extras in one last path component
\* (name=value&...), in name/value path segments, and in the query string
UrlOf(parts) ==
  CatalogBase
    \o (CASE parts.form = "component" -> "/" \o joinPairs(parts.tail)
          [] parts.form = "segments" -> joinSegments(parts.tail)
          [] OTHER -> "")
    \o ".json"
    \o (IF parts.query = <<>> THEN "" ELSE "?" \o joinPairs(parts.query))

NoParts == [form |-> "", tail |-> <<>>, query |-> <<>>]
Parts(form, tail, query) == [form |-> form, tail |-> tail, query |-> query]

\* the requests of the extras scenarios
ExtrasRequests ==
  {Parts("none", <<>>, <<>>),
   Parts("none", <<>>, << <<"skip", "1">> >>),
   Parts("none", <<>>, << <<"limit", "1">>, <<"skip", "1">> >>),
   Parts("none", <<>>, << <<"sort", "imdb">>, <<"order", "desc">> >>),
   Parts("component", << <<"skip", "1">> >>, <<>>),
   Parts("component", << <<"skip", "1">> >>, << <<"skip", "0">> >>),
   Parts("component", << <<"genre", "Drama">> >>, << <<"genre", "Comedy">> >>),
   Parts("component", << <<"genre", "Comedy">>, <<"limit", "1">> >>,
                      << <<"sort", "imdb">>, <<"order", "desc">> >>),
   Parts("segments", << <<"skip", "1">> >>, <<>>),
   Parts("segments", << <<"skip", "1">> >>, << <<"skip", "0">> >>),
   Parts("segments", << <<"genre", "Drama">> >>, << <<"genre", "Comedy">> >>),
   Parts("segments", << <<"genre", "Action & Adventure">> >>, <<>>),
   Parts("segments", << <<"sort", "imdb">> >>, << <<"order", "desc">> >>),
   Parts("segments", << <<"search", "al">>, <<"limit", "1">> >>, << <<"search", "be">> >>)}

\* GET of the URL written from parts
UrlRequest(parts) ==
  /\ exParts' = parts
  /\ exUrl' = UrlOf(parts)
  /\ Request(ParamsOf(UrlOf(parts)))

InitExtras ==
  /\ \E at \in [1..2 -> Attrs] :
       /\ imdbList = <<1, 2>>
       /\ cinemeta = MoviesUpstream(2, at)
  /\ lists = <<Entry("", "u", "u")>>
  /\ gateOn = FALSE
  /\ InitServing
  /\ exParts = NoParts
  /\ exUrl = ""

\* the extras machine at rest
ExtrasParked ==
  /\ exParts = NoParts
  /\ exUrl = ""

\* ---- adding a list
\* how many digits s begins with
RECURSIVE leadingDigits(_)
leadingDigits(s) ==
  IF s = "" \/ Head(s) \notin Digits THEN 0 ELSE 1 + leadingDigits(Tail(s))

\* an extraction that takes the source as it is
matchListId_whole(s) == s

\* srcRaw.match(/ls\d{6,}/i): the first match, "" when there is none
RECURSIVE matchListId(_)
matchListId(s) ==
  IF Len(s) < 8 THEN ""
  ELSE IF /\ toLowerCase(SubSeq(s, 1, 2)) = "ls"
          /\ leadingDigits(SubSeq(s, 3, Len(s))) >= 6
       THEN SubSeq(s, 1, 2 + leadingDigits(SubSeq(s, 3, Len(s))))
       ELSE matchListId(Tail(s))

\* /^ls\d{6,}$/i.test(lsid)
isListId(lsid) ==
  /\ Len(lsid) >= 8
  /\ toLowerCase(SubSeq(lsid, 1, 2)) = "ls"
  /\ leadingDigits(SubSeq(lsid, 3, Len(lsid))) = Len(lsid) - 2

NoAddRes == [status |-> 0, id |-> "", error |-> ""]

\* POST /api/user/:uid/lists with body {src}
AddList(src) ==
  LET srcRaw == trim(src)
      m == matchListId(srcRaw)
      lsid == toLowerCase(IF m # "" THEN m ELSE srcRaw)
      exists == \E k \in 1..Len(lists) : lists[k].id = lsid
  IN
  /\ adSrc' = src
  /\ adBefore' = lists
  /\ IF srcRaw = ""
     THEN /\ adRes' = [status |-> 400, id |-> "", error |-> "Missing src"]
          /\ UNCHANGED lists
     ELSE IF ~isListId(lsid)
     THEN /\ adRes' = [status |-> 400, id |-> "", error |-> "Invalid IMDb list id or URL"]
          /\ UNCHANGED lists
     ELSE /\ adRes' = [status |-> 200, id |-> lsid, error |-> ""]
          /\ lists' = IF exists THEN lists
                      ELSE Append(lists, [EmptyEntry EXCEPT !.id = lsid, !.showIn = "discover"])
  /\ UNCHANGED <<imdbList, cinemeta, gateOn, memLs, memMeta, memStats, req, res,
                 servedFor, served>>

\* the sources of the add-list scenarios
Sources ==
  {"https://example.com/list/ls4103816671/?foo=bar", "ls4103816671", "LS4103816671",
   "  ls123456 ", "imdb.com/list/ls123456789x", "ls12345", "https://www.imdb.com/list/",
   "tt1234567", " ", ""}

InitAdd ==
  /\ imdbList = <<>>
  /\ cinemeta = MixedUpstream
  /\ lists = <<>>
  /\ gateOn = FALSE
  /\ InitServing
  /\ adSrc = ""
  /\ adRes = NoAddRes
  /\ adBefore = <<>>

\* the add-list machine at rest
AddParked ==
  /\ adSrc = ""
  /\ adRes = NoAddRes
  /\ adBefore = <<>>

\* the manifest machine at rest
ManifestParked ==
  /\ mfCatalogs = {}
  /\ mfFor = <<>>
  /\ mfVis = NoVis
  /\ mfTrail = ""

\* ---------------------------------------------------------- specifications
\* Each specification runs one machine; the variables of the others rest.
\* the serving machine at rest
ServingParked ==
  /\ imdbList = <<>>
  /\ cinemeta = MixedUpstream
  /\ lists = <<>>
  /\ gateOn = FALSE
  /\ InitServing

offServing == <<lkVars, stVars, spVars, wmVars, moreVars>>
offLookup == <<pageVars, stVars, spVars, wmVars, moreVars>>
offStats == <<pageVars, lkVars, spVars, wmVars, moreVars>>
offSplit == <<pageVars, lkVars, stVars, wmVars, moreVars>>
offWarm == <<pageVars, lkVars, stVars, spVars, moreVars>>
firstVars == <<pageVars, lkVars, stVars, spVars, wmVars>>

\* the first five machines at rest
FirstParked == ServingParked /\ InitLookup /\ StatsParked /\ SplitParked /\ InitWarm

\* the machines added after the first five, at rest
\* ------------------------------------- resolveParentSeriesFromImdb alone
\* A title page as resolveParentSeriesFromImdb reads it: the id in its
\* data-parent-tconst attribute, the id in the partOfSeries reference of its
\* TVEpisode JSON-LD block and the id of its first /title/tt.../ link, each 0
\* when the page has none.
EpIds == 1..3
EpPages ==
  [tt : {1}, attr : {0} \cup EpIds, ld : {0} \cup EpIds, link : {0} \cup EpIds]

NoEpPage == [tt |-> 0, attr |-> 0, ld |-> 0, link |-> 0]
NoEpOut == [parent |-> 0, by |-> ""]

\* the parent resolveParentSeriesFromImdb finds on a page it fetched
ParentOnPage(page) ==
  IF page.attr # 0 THEN page.attr
  ELSE IF page.ld # 0 THEN page.ld
  ELSE IF page.link # 0 /\ page.link # page.tt THEN page.link
  ELSE 0

InitEp ==
  /\ epPage = NoEpPage
  /\ epLru = [tt \in EpIds |-> 0]
  /\ epOut = NoEpOut

\* resolveParentSeriesFromImdb(page.tt); ok is FALSE when the page cannot be
\* fetched
ResolveParent(page, ok) ==
  LET cached == epLru[page.tt]
      found == ParentOnPage(page)
  IN  /\ epPage' = page
      /\ IF cached # 0
         THEN /\ epOut' = [parent |-> cached, by |-> "lru"]
              /\ UNCHANGED epLru
         ELSE IF ~ok
         THEN /\ epOut' = [parent |-> 0, by |-> "nothing"]
              /\ UNCHANGED epLru
         ELSE /\ epOut' = [parent |-> found, by |-> "page"]
              /\ epLru' = IF found # 0 THEN [epLru EXCEPT ![page.tt] = found] ELSE epLru

\* EP_PARENT_LRU.clear(): the entries have passed their TTL
EpExpire ==
  /\ epLru # [tt \in EpIds |-> 0]
  /\ epLru' = [tt \in EpIds |-> 0]
  /\ UNCHANGED <<epPage, epOut>>

\* ------------------------------------ the in-memory cache and fetchImdbIds
\* mem holds, per key, the entry { v, exp } or none.  Every cached value is
\* written as a record of a title and an id list; the values of the keys
\* other than the list key carry their content in the title.
TTL_SEC == 1
LONG_TTL == 2
MAX_CACHE_SIZE == 1
PAGES_MAX == 3
FULL_PAGE == 2
VARIANTS == 2
MaxClock == 3

LsKey == "ls:1"
CacheKeys == {LsKey, "meta:1", "stats:1"}
NullVal == [title |-> "null", ids |-> <<>>]
NoEntry == [has |-> FALSE, v |-> NullVal, exp |-> 0]
OtherVals == {[title |-> "a", ids |-> <<>>], [title |-> "b", ids |-> <<>>]}

\* getCache(key) at time t: the value returned (hit FALSE for null) and mem
\* after the call
getCache(m, key, t) ==
  LET x == m[key]
  IN  IF ~x.has THEN [hit |-> FALSE, v |-> NullVal, mem |-> m]
      ELSE IF x.exp # 0 /\ x.exp < t
      THEN [hit |-> FALSE, v |-> NullVal, mem |-> [m EXCEPT ![key] = NoEntry]]
      ELSE [hit |-> TRUE, v |-> x.v, mem |-> m]

\* setCache with a sweep that empties the store
setCache_sweepAll(m, key, v, ttlSec, t) ==
  LET size == Cardinality({k \in CacheKeys : m[k].has})
      swept == IF size > MAX_CACHE_SIZE THEN [k \in CacheKeys |-> NoEntry] ELSE m
  IN  [swept EXCEPT ![key] = [has |-> TRUE, v |-> v, exp |-> t + ttlSec]]

\* mem after setCache(key, v, ttlSec) at time t
setCache(m, key, v, ttlSec, t) ==
  LET size == Cardinality({k \in CacheKeys : m[k].has})
      swept == IF size > MAX_CACHE_SIZE
               THEN [k \in CacheKeys |->
                       IF m[k].has /\ m[k].exp # 0 /\ m[k].exp < t
                       THEN NoEntry ELSE m[k]]
               ELSE m
  IN  [swept EXCEPT ![key] = [has |-> TRUE, v |-> v, exp |-> t + ttlSec]]

\* What one URL variant answers for one page of the list: not ok, or a page
\* with a title ("" when it has none) and the ids parseImdbListHTML reads.
Down == [ok |-> FALSE, title |-> "", ids |-> <<>>]
VariantAnswers ==
  {Down} \cup [ok : {TRUE}, title : {"", "T"}, ids : {<<>>, <<1>>}]
         \cup [ok : {TRUE}, title : {"T"}, ids : {<<1, 2>>, <<2, 3>>}]
PageAnswers == [1..VARIANTS -> VariantAnswers]

\* the variants fetchImdbIds tries for a page: up to the first whose page has ids
Tried(ans) ==
  {i \in 1..VARIANTS : \A j \in 1..(i - 1) : ~ans[j].ok \/ ans[j].ids = <<>>}

\* pageIds after the variant loop
PageIdsOf(ans) ==
  LET got == {i \in Tried(ans) : ans[i].ok /\ ans[i].ids # <<>>}
  IN  IF got = {} THEN <<>> ELSE ans[CHOOSE i \in got : TRUE].ids

\* title after the variant loop, from the title before it
TitleAfter(title, ans) ==
  LET titled == {i \in Tried(ans) : ans[i].ok /\ ans[i].title # ""}
  IN  IF title # "" \/ titled = {} THEN title
      ELSE ans[CHOOSE i \in titled : \A j \in titled : i <= j].title

\* for (const id of pageIds) if (!ids.includes(id)) ids.push(id)
RECURSIVE PushNew(_, _)
PushNew(ids, pageIds) ==
  IF pageIds = <<>> THEN ids
  ELSE PushNew(IF \E i \in 1..Len(ids) : ids[i] = Head(pageIds)
               THEN ids ELSE Append(ids, Head(pageIds)),
               Tail(pageIds))

FallbackTitle == "IMDb List 1"
FailVal == [title |-> FallbackTitle, ids |-> <<>>]

CallIds == 1..2
Idle == [st |-> "idle", page |-> 0, ids |-> <<>>, title |-> "", last |-> <<>>]
NoFiOut == [c |-> 0, v |-> NullVal, pages |-> 0, hit |-> FALSE, swept |-> {}]

\* the keys whose entry is in m and not in n
Gone(m, n) == {k \in CacheKeys : m[k].has /\ ~n[k].has}

InitCache ==
  /\ mem = [k \in CacheKeys |-> NoEntry]
  /\ clock = 0
  /\ fiCalls = [c \in CallIds |-> Idle]
  /\ fiOut = NoFiOut
  /\ fiFail = 0

\* fetchImdbIds(lsid) up to its first fetch: the cached value is returned, or
\* the call goes on to the first page
FetchStart(c) ==
  LET cached == getCache(mem, LsKey, clock)
  IN  /\ fiCalls[c].st = "idle"
      /\ mem' = cached.mem
      /\ IF cached.hit
         THEN /\ fiOut' = [c |-> c, v |-> cached.v, pages |-> 0, hit |-> TRUE, swept |-> {}]
              /\ UNCHANGED fiCalls
         ELSE /\ fiCalls' = [fiCalls EXCEPT ![c] = [Idle EXCEPT !.st = "fetching"]]
              /\ UNCHANGED fiOut
      /\ UNCHANGED <<clock, fiFail>>

\* fetchImdbIds from the answers for its next page to the next fetch or to
\* its return
FetchPage(c, ans) ==
  LET call == fiCalls[c]
      page == call.page + 1
      title == TitleAfter(call.title, ans)
      pageIds == PageIdsOf(ans)
      ids == PushNew(call.ids, pageIds)
      stop == pageIds = <<>> \/ Len(pageIds) < FULL_PAGE \/ page >= PAGES_MAX
      val == [title |-> IF title # "" THEN title ELSE FallbackTitle, ids |-> ids]
  IN  /\ call.st = "fetching"
      /\ IF stop
         THEN /\ mem' = setCache(mem, LsKey, val, TTL_SEC, clock)
              /\ fiOut' = [c |-> c, v |-> val, pages |-> page, hit |-> FALSE,
                         swept |-> Gone(mem, mem')]
              /\ fiCalls' = [fiCalls EXCEPT ![c] = Idle]
              /\ fiFail' = IF val = FailVal THEN clock + TTL_SEC ELSE fiFail
         ELSE /\ fiCalls' = [fiCalls EXCEPT ![c] =
                   [st |-> "fetching", page |-> page, ids |-> ids, title |-> title,
                    last |-> pageIds]]
              /\ UNCHANGED <<mem, fiOut, fiFail>>
      /\ UNCHANGED clock

\* getCache(key) by any caller
CacheGet(key) ==
  /\ mem[key].has
  /\ mem' = getCache(mem, key, clock).mem
  /\ fiOut' = [c |-> 0, v |-> getCache(mem, key, clock).v, pages |-> 0,
               hit |-> getCache(mem, key, clock).hit, swept |-> {}]
  /\ UNCHANGED <<clock, fiCalls, fiFail>>

\* setCache(key, v, ttlSec) by any caller
CacheSet(key, v, ttlSec) ==
  /\ mem' = setCache(mem, key, v, ttlSec, clock)
  /\ fiOut' = [c |-> 0, v |-> v, pages |-> 0, hit |-> FALSE, swept |-> Gone(mem, mem')]
  /\ UNCHANGED <<clock, fiCalls, fiFail>>

\* time passes
Tick ==
  /\ clock < MaxClock
  /\ clock' = clock + 1
  /\ UNCHANGED <<mem, fiCalls, fiOut, fiFail>>

\* ------------------------- add-list, patch-list and delete-list interleaved
AddSlots == 1..2
CoSources == {"https://example.com/list/ls4103816671/?foo=bar", "  ls123456 ", "LS123456",
              "ls12345", ""}
CoPatchIds == {"ls123456", "LS123456"}
CoDeleteIds == {"ls123456", "ls4103816671"}

\* the collection after POST added lsid: appended unchecked
Added_unchecked(ls, lsid) ==
  Append(ls, [EmptyEntry EXCEPT !.id = lsid, !.showIn = "discover"])

\* the collection after POST added lsid
Added(ls, lsid) ==
  IF \E k \in 1..Len(ls) : ls[k].id = lsid THEN ls
  ELSE Append(ls, [EmptyEntry EXCEPT !.id = lsid, !.showIn = "discover"])

\* the collection after PATCH .../lists/:lsid with the body
Patched(ls, lsid, body) ==
  IF \E k \in 1..Len(ls) : ls[k].id = lsid
  THEN [k \in 1..Len(ls) |->
          IF ls[k].id = lsid THEN PatchedEntry(ls[k], body, TRUE) ELSE ls[k]]
  ELSE Append(ls, PatchedEntry([EmptyEntry EXCEPT !.id = lsid], body, FALSE))

\* the collection after DELETE .../lists/:lsid
Deleted(ls, lsid) == SelectSeq(ls, LAMBDA x : x.id # lsid)

InitCo == coPending = [a \in AddSlots |-> ""]

coRest == <<imdbList, cinemeta, gateOn, memLs, memMeta, memStats, req, res, servedFor,
            served>>

\* POST /api/user/:uid/lists up to the await of fetchImdbIds
AddBegin(a, src) ==
  LET srcRaw == trim(src)
      m == matchListId(srcRaw)
      lsid == toLowerCase(IF m # "" THEN m ELSE srcRaw)
  IN  /\ coPending[a] = ""
      /\ coPending' = [coPending EXCEPT ![a] = IF srcRaw # "" /\ isListId(lsid) THEN lsid ELSE ""]
      /\ UNCHANGED <<lists, coRest>>

\* POST /api/user/:uid/lists from the return of fetchImdbIds on
AddEnd(a) ==
  /\ coPending[a] # ""
  /\ lists' = Added(lists, coPending[a])
  /\ coPending' = [coPending EXCEPT ![a] = ""]
  /\ UNCHANGED coRest

\* PATCH /api/user/:uid/lists/:lsid
CoPatch(lsid, body) ==
  /\ lists' = Patched(lists, lsid, body)
  /\ UNCHANGED <<coPending, coRest>>

\* DELETE /api/user/:uid/lists/:lsid
CoDelete(lsid) ==
  /\ lists' = Deleted(lists, lsid)
  /\ UNCHANGED <<coPending, coRest>>

\* user u1 has no snapshot files
OwnParked == u1File = [b \in Buckets |-> NoFile]

\* the late machines at rest
LateParked == InitEp /\ InitCache /\ InitCo /\ OwnParked

MoreParked ==
  SortParked /\ GenreParked /\ ManifestParked /\ AddParked /\ ExtrasParked /\ LateParked

PageRequest == (\E p \in PageParams : Request(p)) /\ UNCHANGED offServing
PageInit == InitPage /\ InitLookup /\ StatsParked /\ SplitParked /\ InitWarm /\ MoreParked
SpecPage == PageInit /\ [][PageRequest]_vars

VisRequest == (\E p \in VisParams : Request(p)) /\ UNCHANGED offServing
VisInit == InitVis /\ InitLookup /\ StatsParked /\ SplitParked /\ InitWarm /\ MoreParked
SpecVis == VisInit /\ [][VisRequest]_vars

LookupInit == InitLookup /\ ServingParked /\ StatsParked /\ SplitParked /\ InitWarm /\ MoreParked
LookupNext ==
  \/ \E r \in LkReqs : StartPage(r) /\ UNCHANGED offLookup
  \/ \E r \in LkReqs, w \in LkWorkers : Claim(r, w) /\ UNCHANGED offLookup
  \/ \E r \in LkReqs, w \in LkWorkers, ok \in BOOLEAN :
       ResolveSeries(r, w, ok) /\ UNCHANGED offLookup
  \/ \E r \in LkReqs, w \in LkWorkers, ok \in BOOLEAN :
       ResolveMovie(r, w, ok) /\ UNCHANGED offLookup
  \/ \E r \in LkReqs : FinishPage(r) /\ UNCHANGED offLookup
SpecLookup == LookupInit /\ [][LookupNext]_vars

StatsInit == InitStats /\ ServingParked /\ InitLookup /\ SplitParked /\ InitWarm /\ MoreParked
StatsNext ==
  \/ \E h \in Probes, t \in Buckets : HasTypeCall(h, t) /\ UNCHANGED offStats
  \/ \E h \in Probes, any \in BOOLEAN : HasTypeStore(h, any) /\ UNCHANGED offStats
  \/ \E t \in Buckets, n \in 1..MaxItems : PageLoaded(t, n) /\ UNCHANGED offStats
  \/ Expire /\ UNCHANGED offStats
SpecStats == StatsInit /\ [][StatsNext]_vars

SplitInit == InitSplit /\ ServingParked /\ InitLookup /\ StatsParked /\ InitWarm /\ MoreParked
SplitNext ==
  \/ PoolStart /\ UNCHANGED offSplit
  \/ \E idx \in 1..MaxSplit, f \in SUBSET Fetches : WorkerSettles(idx, f) /\ UNCHANGED offSplit
  \/ WriteSplit /\ UNCHANGED offSplit
SpecSplit == SplitInit /\ [][SplitNext]_vars

LabelsInit == InitLabels /\ ServingParked /\ InitLookup /\ StatsParked /\ InitWarm /\ MoreParked
SpecLabels == LabelsInit /\ [][SplitNext]_vars

TitlesInit == InitTitles /\ ServingParked /\ InitLookup /\ StatsParked /\ InitWarm /\ MoreParked
SpecTitles == TitlesInit /\ [][SplitNext]_vars

WarmInit == InitWarm /\ ServingParked /\ InitLookup /\ StatsParked /\ SplitParked /\ MoreParked
WarmNext ==
  \/ \E r \in Refreshes : WarmStart(r) /\ UNCHANGED offWarm
  \/ \E r \in Refreshes, failM \in BOOLEAN, failS \in BOOLEAN :
       WarmClassify(r, failM, failS) /\ UNCHANGED offWarm
  \/ \E r \in Refreshes : WarmWriteMovies(r) /\ UNCHANGED offWarm
  \/ \E r \in Refreshes : WarmWriteSeries(r) /\ UNCHANGED offWarm
SpecWarm == WarmInit /\ [][WarmNext]_vars

SortInit ==
  InitSort /\ FirstParked /\ GenreParked /\ ManifestParked /\ AddParked /\ ExtrasParked /\ LateParked
SortNext ==
  \E sort \in {"rating", "imdb"}, order \in {"", "asc", "desc", "reverse"} :
    SortRequest(sort, order) /\ UNCHANGED <<firstVars, gnVars, mfVars, adVars, exVars, lateVars>>
SpecSort == SortInit /\ [][SortNext]_vars

GenreInit ==
  InitGenre /\ InitLookup /\ StatsParked /\ SplitParked /\ InitWarm /\ SortParked
    /\ ManifestParked /\ AddParked /\ ExtrasParked /\ LateParked
ExplodeString ==
  \E g \in GenreLabels : Explode(GenreString(g)) /\ UNCHANGED <<firstVars, soVars, mfVars, adVars, exVars, lateVars>>
ExplodeArray ==
  \E a \in {<<g>> : g \in GenreLabels} \cup GenreLists :
    Explode(GenreArray(a)) /\ UNCHANGED <<firstVars, soVars, mfVars, adVars, exVars, lateVars>>
GenreRequest ==
  (\E p \in GenreParams : Request(p)) /\ UNCHANGED <<offServing>>
GenreNext == ExplodeString \/ ExplodeArray \/ GenreRequest
SpecGenre == GenreInit /\ [][GenreNext]_vars

offManifest == <<lkVars, stVars, spVars, wmVars, soVars, gnVars, adVars, exVars, lateVars>>
ManifestInit ==
  InitManifest /\ InitLookup /\ StatsParked /\ SplitParked /\ InitWarm /\ SortParked
    /\ GenreParked /\ AddParked /\ ExtrasParked /\ LateParked
ManifestRequest == Manifest /\ UNCHANGED offManifest
PatchRequest == (\E body \in PatchBodies : PatchList(body)) /\ UNCHANGED offManifest
PageLoad == (\E p \in PlainParams : Request(p)) /\ UNCHANGED <<offManifest, mfVars>>
ManifestNext == ManifestRequest \/ PatchRequest \/ PageLoad
SpecManifest == ManifestInit /\ [][ManifestNext]_vars

ManifestV2Init ==
  InitManifestV2 /\ InitLookup /\ StatsParked /\ SplitParked /\ SortParked /\ GenreParked
    /\ AddParked /\ ExtrasParked /\ LateParked
ManifestV2Request == ManifestV2 /\ UNCHANGED offManifest
PatchV2Request ==
  (\E showIn \in {"", "hidden", "discover", "home", "both"} : PatchListV2(showIn))
    /\ UNCHANGED offManifest
ManifestV2Next == ManifestV2Request \/ PatchV2Request
SpecManifestV2 == ManifestV2Init /\ [][ManifestV2Next]_vars

AddInit ==
  InitAdd /\ InitLookup /\ StatsParked /\ SplitParked /\ InitWarm /\ SortParked
    /\ GenreParked /\ ManifestParked /\ ExtrasParked /\ LateParked
AddNext ==
  \E src \in Sources :
    AddList(src)
      /\ UNCHANGED <<lkVars, stVars, spVars, wmVars, soVars, gnVars, mfVars, exVars, lateVars>>
SpecAdd == AddInit /\ [][AddNext]_vars

ExtrasInit ==
  InitExtras /\ InitLookup /\ StatsParked /\ SplitParked /\ InitWarm /\ SortParked
    /\ GenreParked /\ ManifestParked /\ AddParked /\ LateParked
ExtrasNext ==
  \E parts \in ExtrasRequests :
    UrlRequest(parts)
      /\ UNCHANGED <<lkVars, stVars, spVars, wmVars, soVars, gnVars, mfVars, adVars, lateVars>>
SpecExtras == ExtrasInit /\ [][ExtrasNext]_vars

\* ------------------------------------------------------------ claims C4-C6
\* the (list, type) of the request served last is configured home-only
ReqHomeOnly ==
  /\ req.type \in Buckets
  /\ visibilityFor(FindEntry(lists, LSID), req.type).home
  /\ ~visibilityFor(FindEntry(lists, LSID), req.type).discover

\* handleCatalog's body read the request served last and answered it
ReqServed ==
  /\ res.by = "handleCatalog"
  /\ req.type \in Buckets
  /\ req.idKind \in {"movies", "series"}
  /\ req.path = "ok"

\* what the request served last gets from a catalog shown everywhere
OpenPage == handleCatalog(<<Entry("both", "u", "u")>>, cinemeta, imdbList, req)

\* C4: a query that handleCatalog answers for a home-only (list, type) gets
\* {metas: []} when it carries a genre other than Top or a non-empty search
\* term, and the normal unfiltered page when it carries neither.
C4_HomeOnlyGhosting ==
  (ReqServed /\ ReqHomeOnly) =>
     /\ (req.genre \notin {"", "Top"} \/ req.search # "") => res.metas = <<>>
     /\ (req.genre = "" /\ req.search = "") => res.metas = OpenPage

\* C4 witness: a Comedy query on a home-only catalog was answered empty where
\* a catalog shown everywhere answers with items.
C4_Witness ==
  /\ ReqServed /\ ReqHomeOnly
  /\ req.genre = "Comedy"
  /\ res.metas = <<>>
  /\ OpenPage # <<>>

\* C5: a query with genre=Top is answered with the page the same query gets
\* with no genre parameter, for home-only and discover-enabled catalogs.
C5_TopIsNoFilter ==
  (ReqServed /\ req.genre = "Top") =>
     res.metas = handleCatalog(lists, cinemeta, imdbList, [req EXCEPT !.genre = ""])

\* C6: every catalog request is answered with status 200 and a metas array;
\* an unrecognized catalog id, a disabled or Discover-hidden catalog and an
\* exception while the query is handled give {metas: []}.
C6_AlwaysOkWithMetas ==
  req # NoReq =>
     /\ res.status = 200 /\ res.hasMetas
     /\ (req.idKind = "bad" \/ req.path = "malformed" \/ req.cookie = "malformed")
          => res.metas = <<>>
     /\ (req.type \in Buckets
          /\ ~visibilityFor(FindEntry(lists, LSID), req.type).home
          /\ (~visibilityFor(FindEntry(lists, LSID), req.type).discover
              \/ req.genre \notin {"", "Top"}))
          => res.metas = <<>>

\* ---------------------------------------------------------------- claim C10
\* the items of the list that match the type, search and genre of p
Matching(p) ==
  {k \in 1..Len(imdbList) :
     LET meta == getTypedMetaDeterministic(cinemeta, p.type, imdbList[k])
     IN  /\ SlotKept(meta, p.type, ToLower(p.search))
         /\ (p.genre = "" \/ GenreMatches(meta, p.genre))}

\* C10: with the same search, genre, sort and order, the page for skip 0 and
\* one page length followed by the page for skip one page length equals the
\* page for skip 0 and two page lengths; when at least two page lengths of
\* items match, both single pages are full and start with different items.
C10_Pagination ==
  (\A k \in Pagings : served[k].done) =>
     LET first == served[<<0, PAGE>>].metas
         second == served[<<PAGE, PAGE>>].metas
         double == served[<<0, 2 * PAGE>>].metas
     IN  /\ first \o second = double
         /\ Cardinality(Matching(servedFor)) >= 2 * PAGE =>
              /\ Len(first) = PAGE /\ Len(second) = PAGE
              /\ first[1] # second[1]

\* C10, the concatenation law alone
C10_Concatenation ==
  (\A k \in Pagings : served[k].done) =>
     served[<<0, PAGE>>].metas \o served[<<PAGE, PAGE>>].metas
       = served[<<0, 2 * PAGE>>].metas

C7_StatsMonotonic ==
  \A t \in Buckets :
    stPageMax[t] > 0 => (stMem # 0 /\ stObjs[stMem][t] >= stPageMax[t])

\* ------------------------------------------------------------ claims C3, C9
NoDuplicates(ids) == \A j, k \in 1..Len(ids) : ids[j] = ids[k] => j = k

\* C3: for a list whose ids have movie-only, series-only or both metadata
\* (and no failing upstream request), classifyAndWriteSplit writes exactly the
\* movie-only ids to the movie snapshot and the series-only and both-metadata
\* ids to the series snapshot, each in list order.
C3_SplitByMetadata ==
  (spPhase = "written" /\ spFails = 0
     /\ \A k \in 1..Len(spIds) : SplitUp[spIds[k]].movie \/ SplitUp[spIds[k]].series) =>
    /\ spMovies = (uniqById(SelectSeq(spIds,
                      LAMBDA tt : SplitUp[tt].movie /\ ~SplitUp[tt].series)))
    /\ spSeries = (uniqById(SelectSeq(spIds, LAMBDA tt : SplitUp[tt].series)))

\* C9: once classifyAndWriteSplit has written, neither the movie snapshot nor
\* the series snapshot holds two items with the same id.
C9_NoDuplicateIds ==
  spPhase = "written" => (NoDuplicates(spMovies) /\ NoDuplicates(spSeries))

\* C9 witness: two episodes of the list were mapped to the same parent series
\* and a movie id is repeated; the snapshots hold the parent and the movie once.
C9_Witness ==
  /\ spPhase = "written"
  /\ spIds \in {<<4, 5, 1>>, <<1, 1, 3>>}
  /\ \A k \in 1..Len(spIds) : spRes[k].type \in {"movie", "series"}
  /\ <<spMovies, spSeries>> \in {<< <<1>>, <<2>> >>, << <<1>>, <<3>> >>}

\* ------------------------------------------------------------ claims C2, C8
\* C2: an id for which both bucket requests of a pass succeeded (each with a
\* meta in its payload) is in the series items of that pass and never in its
\* movie items, in the lists the pass builds and in the files it writes.
C2_SeriesWinsTie ==
  \A r \in Refreshes : \A tt \in wmBothOk[r] :
    /\ tt \notin Range(wmJob[r].movies)
    /\ tt \in Range(wmJob[r].series)
    /\ (wmJob[r].pass # 0 /\ wmFile["movie"].pass = wmJob[r].pass)
         => tt \notin Range(wmFile["movie"].ids)

\* C8: whenever both snapshot files of the list exist, their item sets are
\* disjoint and were written by one and the same classification pass.
C8_SnapshotsOfOnePass ==
  (wmFile["movie"].pass # 0 /\ wmFile["series"].pass # 0) =>
    /\ wmFile["movie"].pass = wmFile["series"].pass
    /\ Range(wmFile["movie"].ids) \cap Range(wmFile["series"].ids) = {}

\* C8, its last part: once every refresh has returned, the two snapshot files
\* were written by one and the same pass.
C8_SamePassAtRest ==
  (wmPasses > 0 /\ \A r \in Refreshes : wmJob[r].phase = "idle") =>
    wmFile["movie"].pass = wmFile["series"].pass

\* ---------------------------------------------------------------- claim C11
\* the rating a client reads off an item: Number(m.imdbRating) || 0
RatingShown(m) == IF m.rating = null THEN 0 ELSE m.rating

\* the position of the item with this id in a result
PosIn(ms, id) == CHOOSE k \in 1..Len(ms) : ms[k].id = id

\* ms holds exactly the items of soArr
SameItems(ms) == Len(ms) = Len(soArr) /\ Range(ms) = Range(soArr)

\* C11: sorting one item set by rating gives non-increasing ratings for
\* order=desc and non-decreasing ratings for order=asc, each result holding
\* exactly the items of the set; two items with distinct ratings are in
\* opposite relative order in the two results.
C11_RatingOrder ==
  LET desc == soOut["desc"].metas
      asc == soOut["asc"].metas
  IN  /\ soOut["desc"].done =>
           /\ SameItems(desc)
           /\ \A k \in 2..Len(desc) : RatingShown(desc[k]) <= RatingShown(desc[k - 1])
      /\ soOut["asc"].done =>
           /\ SameItems(asc)
           /\ \A k \in 2..Len(asc) : RatingShown(asc[k]) >= RatingShown(asc[k - 1])
      /\ (soOut["desc"].done /\ soOut["asc"].done) =>
           \A a, b \in Range(soArr) :
             RatingShown(a) # RatingShown(b) =>
               ((PosIn(desc, a.id) < PosIn(desc, b.id)) <=> (PosIn(asc, a.id) > PosIn(asc, b.id)))

\* C11 witness: a set given in neither order, with two equal ratings, a
\* higher one and an item without rating, was sorted both ways.
C11_Witness ==
  /\ soOut["desc"].done /\ soOut["asc"].done
  /\ [k \in 1..Len(soArr) |-> soArr[k].rating] = <<1, 2, null, 1>>
  /\ [k \in 1..4 |-> soOut["desc"].metas[k].id] = <<2, 1, 4, 3>>
  /\ [k \in 1..4 |-> soOut["asc"].metas[k].id] = <<3, 1, 4, 2>>

\* ----------------------------------------------------------- claims C12, C13
\* the raw genre field exploded last is this label, as a string or as an
\* array holding it as its single element
FieldIs(label) ==
  IF gnRaw.isArray THEN gnRaw.val = <<label>> ELSE gnRaw.val = label

\* the ids of the page answered last
ResIds == {res.metas[k].id : k \in 1..Len(res.metas)}

\* C12: exploding "Sci-Fi & Fantasy", given as a string or as a single-element
\* array, yields exactly {Sci-Fi, Fantasy}; and a query with genre=Fantasy
\* returns every item whose only genre tag is that compound label.
C12_SciFiFantasy ==
  /\ FieldIs("Sci-Fi & Fantasy") => gnSet = {"Sci-Fi", "Fantasy"}
  /\ (ReqServed /\ req.genre = "Fantasy") =>
        \A k \in Range(imdbList) :
          cinemeta[<<"movie", k>>].genres = <<"Sci-Fi & Fantasy">> => k \in ResIds

\* C12, the string case alone: the string "Sci-Fi & Fantasy" explodes to
\* {Sci-Fi, Fantasy}
C12_StringField ==
  (~gnRaw.isArray /\ FieldIs("Sci-Fi & Fantasy")) => gnSet = {"Sci-Fi", "Fantasy"}

\* a compound label in the spellings normalization leaves of it
IsCompoundLabel(c) == c \in CompoundLabels \cup {"Sci Fi & Fantasy"}

\* C13: exploding a single genre of the fixed taxonomy returns the singleton
\* of that genre; exploding "Action & Adventure" returns exactly
\* {Action, Adventure}; no exploded set has a compound label as a member.
C13_ExplodeIdempotent ==
  /\ \A g \in DEFAULT_GENRES : FieldIs(g) => gnSet = {g}
  /\ FieldIs("Action & Adventure") => gnSet = {"Action", "Adventure"}
  /\ \A c \in gnSet : ~IsCompoundLabel(c)

\* C13, its first two parts alone
C13_TaxonomyAndAction ==
  /\ \A g \in DEFAULT_GENRES : FieldIs(g) => gnSet = {g}
  /\ FieldIs("Action & Adventure") => gnSet = {"Action", "Adventure"}

\* ------------------------------------------------------ claims C14, C15, C16
\* the list has an item that classifies into the type (series wins a tie)
HasItemsOf(type) ==
  \E k \in 1..Len(imdbList) :
    getTypedMetaDeterministic(cinemeta, type, imdbList[k]) # NoMeta

\* C14: the manifest holds a catalog for a (list, type) pair only if the list
\* has an item that classifies into the type and discover or home is enabled
\* for the type; a list whose ids all classify as series has no movie catalog.
C14_CatalogOnlyIfItems ==
  \A c \in mfCatalogs :
    /\ HasItemsOf(c[2])
    /\ mfVis[c[2]].discover \/ mfVis[c[2]].home

\* C14, the visibility half alone
C14_OnlyIfEnabled ==
  \A c \in mfCatalogs : mfVis[c[2]].discover \/ mfVis[c[2]].home

\* C15: the manifest that follows a PATCH of showIn to 'hidden' holds no
\* catalog of the list; the manifest that follows the PATCH back to
\* 'discover' holds the movie catalog of a list that has movie items.
C15_HideAndShow ==
  /\ mfTrail = "hidden-manifest" => mfCatalogs = {}
  /\ (mfTrail = "discover-manifest" /\ HasItemsOf("movie"))
       => <<LSID, "movie">> \in mfCatalogs

\* the entry the manifest was built from carries no visibility record
LegacyEntry == mfFor # <<>> /\ mfFor[1].visibility = NoVisibility

\* an id among those hasType samples has movie-bucket metadata
MovieSampled ==
  \E k \in 1..Min(SAMPLE, Len(imdbList)) : cinemeta[<<"movie", imdbList[k]>>] # NoMeta

\* C15 (amended): for a list entry that carries no visibility record, the
\* manifest that follows a PATCH of showIn to 'hidden' holds no catalog of
\* the list, and the manifest that follows the PATCH back to 'discover'
\* holds its movie catalog when an id among those hasType samples has
\* movie-bucket metadata.
C15_LegacyHideAndShow ==
  /\ (mfTrail = "hidden-manifest" /\ LegacyEntry) => mfCatalogs = {}
  /\ (mfTrail = "discover-manifest" /\ LegacyEntry /\ MovieSampled)
       => <<LSID, "movie">> \in mfCatalogs

IdIn(src) ==
  CASE src \in {"https://example.com/list/ls4103816671/?foo=bar", "ls4103816671",
                "LS4103816671"} -> "ls4103816671"
    [] src = "  ls123456 " -> "ls123456"
    [] src = "imdb.com/list/ls123456789x" -> "ls123456789"
    [] OTHER -> ""

ListIds(ls) == {ls[k].id : k \in 1..Len(ls)}

\* C17: adding a list with a source that contains a list identifier (ls and
\* at least six digits) answers with that identifier and leaves exactly it
\* added to the user's collection; a source with no identifier is answered
\* with an error status and the collection is unchanged.
C17_AddList ==
  adRes # NoAddRes =>
    /\ IdIn(adSrc) # "" =>
         /\ adRes.status = 200 /\ adRes.id = IdIn(adSrc)
         /\ ListIds(lists) = ListIds(adBefore) \cup {IdIn(adSrc)}
         /\ NoDuplicates([k \in 1..Len(lists) |-> lists[k].id])
    /\ IdIn(adSrc) = "" =>
         /\ adRes.status = 400 /\ adRes.error # ""
         /\ lists = adBefore

\* C17 witness: the URL of the scenario was added to a collection that held
\* another list, and its identifier is the one appended.
C17_Witness ==
  /\ adSrc = "https://example.com/list/ls4103816671/?foo=bar"
  /\ adRes = [status |-> 200, id |-> "ls4103816671", error |-> ""]
  /\ Len(adBefore) = 1
  /\ Len(lists) = 2 /\ lists[2].id = "ls4103816671"

\* ---------------------------------------------------------------- claim C18
ExtraKeys == {"genre", "search", "sort", "order", "skip", "limit"}

\* the value the client wrote for name k in a sequence of pairs, "" if none
Written(pairs, k) ==
  IF \E i \in 1..Len(pairs) : pairs[i][1] = k
  THEN pairs[CHOOSE i \in 1..Len(pairs) : pairs[i][1] = k][2]
  ELSE ""

\* the value of the request the handler worked with, as the client writes it
Used(k) ==
  IF k \in {"skip", "limit"}
  THEN (CASE req[k] = 0 -> "0" [] req[k] = 1 -> "1" [] req[k] = 2 -> "2" [] OTHER -> "?")
  ELSE req[k]

Conflict(k) ==
  /\ Written(exParts.query, k) # ""
  /\ Written(exParts.tail, k) # ""
  /\ Written(exParts.query, k) # Written(exParts.tail, k)

\* C18: when a catalog request carries one parameter in the query string and
\* in the trailing path with different values, the handler works with the
\* query-string value; a parameter written in one place only is accepted.
C18_QueryWins ==
  exUrl # "" =>
    \A k \in ExtraKeys :
      /\ Conflict(k) => Used(k) = Written(exParts.query, k)
      /\ (Written(exParts.query, k) # "" /\ Written(exParts.tail, k) = "")
           => Used(k) = Written(exParts.query, k)
      /\ (Written(exParts.query, k) = "" /\ Written(exParts.tail, k) # "")
           => Used(k) = Written(exParts.tail, k)

\* C18, the part that holds: the query string wins over extras written as
\* name=value in the last path component, and a parameter written in one
\* place only is accepted whatever the form.
C18_QueryWinsOverComponent ==
  exUrl # "" =>
    \A k \in ExtraKeys :
      /\ (Conflict(k) /\ exParts.form = "component")
           => Used(k) = Written(exParts.query, k)
      /\ (Written(exParts.query, k) # "" /\ Written(exParts.tail, k) = "")
           => Used(k) = Written(exParts.query, k)
      /\ (Written(exParts.query, k) = "" /\ Written(exParts.tail, k) # "")
           => Used(k) = Written(exParts.tail, k)

\* ---------------------------------------------------------------- claim C19
\* an id with no metadata in either bucket whose parent series, another id,
\* has series metadata
IsEpisode(tt) ==
  LET up == SplitUp[tt]
  IN  /\ ~up.movie /\ ~up.series
      /\ up.parent # 0 /\ up.parent # tt
      /\ SplitUp[up.parent].series

UpMapped(k) ==
  /\ SplitUp[spIds[k]].parent \in Range(spSeries)
  /\ spIds[k] \notin Range(spSeries)
  /\ <<spIds[k], SplitUp[spIds[k]].parent>> \in spEpMap

\* C19: once classifyAndWriteSplit has written (no upstream request having
\* failed), for every id of the list with no metadata of its own and a parent
\* series whose series metadata resolves, the series snapshot holds the
\* parent's id and not the id, and the episode map holds the pair; a list of
\* such ids only ends with a non-empty series snapshot.
C19_EpisodeUpMapped ==
  (spPhase = "written" /\ spFails = 0) =>
    /\ \A k \in 1..Len(spIds) : IsEpisode(spIds[k]) => UpMapped(k)
    /\ (spIds # <<>> /\ \A k \in 1..Len(spIds) : IsEpisode(spIds[k])) => spSeries # <<>>

\* C19, the part that holds: the same for the ids whose worker the pool
\* awaits (the first CONCURRENCY ids of the list), and for the list of
\* episodes only.
C19_AwaitedUpMapped ==
  (spPhase = "written" /\ spFails = 0) =>
    /\ \A k \in 1..Len(spIds) :
         (k <= CONCURRENCY /\ IsEpisode(spIds[k])) => UpMapped(k)
    /\ (spIds # <<>> /\ \A k \in 1..Len(spIds) : IsEpisode(spIds[k])) => spSeries # <<>>

\* ---------------------------------------------------------------- claim C20
\* the labels of the excluded kinds, as resolveTitleTypeFromImdb returns them
AlwaysExcluded ==
  {titleTypeKey("Video Game"), titleTypeKey("Podcast Series"),
   titleTypeKey("Podcast Episode")}

ExcludedLabel(tt) ==
  \/ SplitUp[tt].label \in AlwaysExcluded
  \/ SplitUp[tt].label = titleTypeKey("Music Video") /\ ~INCLUDE_MUSIC_VIDEO

\* C20: once classifyAndWriteSplit has written, no id whose title page is
\* labelled Video Game, Podcast Series or Podcast Episode, and no id labelled
\* Music Video unless INCLUDE_MUSIC_VIDEO is true, is in the movie snapshot
\* or in the series snapshot.
C20_LabelExcluded ==
  spPhase = "written" =>
    \A k \in 1..Len(spIds) :
      ExcludedLabel(spIds[k]) =>
        (spIds[k] \notin Range(spMovies) /\ spIds[k] \notin Range(spSeries))

\* C20, the label table alone: the label of every such id of the list maps
\* to the exclude bucket.
C20_LabelBucket ==
  \A k \in 1..Len(spIds) :
    ExcludedLabel(spIds[k]) => mapTitleTypeToBucket(SplitUp[spIds[k]].label) = "exclude"

\* C20, the part that holds: an id with a podcast label is mapped to the
\* exclude bucket, and an id with a label of the excluded kinds for which
\* Cinemeta has no metadata is in neither snapshot.
C20_NoMetadataExcluded ==
  /\ \A k \in 1..Len(spIds) :
       SplitUp[spIds[k]].label \in {titleTypeKey("Podcast Series"), titleTypeKey("Podcast Episode")}
         => mapTitleTypeToBucket(SplitUp[spIds[k]].label) = "exclude"
  /\ spPhase = "written" =>
       \A k \in 1..Len(spIds) :
         (ExcludedLabel(spIds[k]) /\ ~SplitUp[spIds[k]].movie /\ ~SplitUp[spIds[k]].series)
           => (spIds[k] \notin Range(spMovies) /\ spIds[k] \notin Range(spSeries))

\* ---------------------------------------------------------------- claim C21
\* the upstreams hold nothing a classifier step could commit for tt
NoStepResolves(tt) ==
  LET up == SplitUp[tt]
  IN  /\ ~up.movie /\ ~up.series
      /\ ~(up.parent # 0 /\ up.parent # tt /\ SplitUp[up.parent].series)

Committed(k) == spRes[k].type \in {"movie", "series"}

\* C21: once classifyAndWriteSplit has written, an id no classifier step
\* resolves is in neither snapshot; an entry whose worker failed or excluded
\* it leaves its id out of both snapshots unless another entry of the list
\* commits that id; and when one worker failed and nothing else did, every
\* other entry is classified as it is without the failure, its result being
\* in the snapshot of its bucket when the pool awaited its worker.
C21_FailedAbsent ==
  spPhase = "written" =>
    /\ \A k \in 1..Len(spIds) :
         NoStepResolves(spIds[k]) =>
           (spIds[k] \notin Range(spMovies) /\ spIds[k] \notin Range(spSeries))
    /\ \A k \in 1..Len(spIds) :
         (/\ spRes[k].type \in {"exclude", "null"}
          /\ ~\E j \in 1..Len(spIds) : Committed(j) /\ spRes[j].id = spIds[k])
           => (spIds[k] \notin Range(spMovies) /\ spIds[k] \notin Range(spSeries))
    /\ \A k \in 1..Len(spIds) :
         (spRes[k].type = "null" /\ spFails = 1) =>
           \A j \in 1..Len(spIds) \ {k} :
             /\ spRes[j] \in {Pending, ClassifyOne(spIds[j], {})}
             /\ (j \in spAwaited /\ spRes[j].type = "movie")
                  => spRes[j].id \in Range(spMovies)
             /\ (j \in spAwaited /\ spRes[j].type = "series")
                  => spRes[j].id \in Range(spSeries)

\* C21 witness: the snapshots were written for a list in which one worker
\* failed, one id was excluded for want of any metadata and a third entry
\* was committed.
C21_Witness ==
  /\ spPhase = "written"
  /\ \E k, j, i \in 1..Len(spIds) :
       /\ spRes[k].type = "null"
       /\ spRes[j].type = "exclude" /\ NoStepResolves(spIds[j])
       /\ i \in spAwaited /\ Committed(i)
       /\ spRes[i].id \in Range(spMovies) \cup Range(spSeries)


\* ------------------------------------------------ external calls of getMeta
\* a worker whose getMeta call missed the cache: its request to the upstream
\* is in flight
Calling(r, w) ==
  LET me == lkWorker[r][w]
  IN  me.pc \in {"S", "M"} /\ ~me.hit

\* the (bucket, id) pair a calling worker asked for
PairOf(r, w) ==
  LET me == lkWorker[r][w]
  IN  <<IF me.pc = "S" THEN "series" ELSE "movie", LkIds[me.my]>>

LkCalls == {c \in LkReqs \X LkWorkers : Calling(c[1], c[2])}

\* C22: within one cache window (nothing expires here) a (bucket, id) pair is
\* asked of the upstream at most once, so no two external calls for the same
\* pair are ever in flight together
C22_SingleCall ==
  \A c \in LkCalls, d \in LkCalls : PairOf(c[1], c[2]) = PairOf(d[1], d[2]) => c = d


\* -------------------------------------------------------- sortMetas by name
\* One item set, in any input order, is sorted by name in both orders, the
\* way handleCatalog calls sortMetas for ?sort=name.
MaxNamed == 3
SortNames == {"Alpha", "alpha", "The Alpha", "Beta", "An Owl"}
NamedItem(k, name) == Meta(k, "movie", name, <<"Comedy">>, 1)

\* the orders a sequence can be given in
Orderings(arr) ==
  {[k \in 1..Len(arr) |-> arr[f[k]]] :
     f \in {g \in [1..Len(arr) -> 1..Len(arr)] : \A a, b \in 1..Len(arr) : g[a] = g[b] => a = b}}

InitNames ==
  /\ soArr \in UNION {UNION {Orderings([k \in 1..n |-> NamedItem(k, ns[k])]) :
                               ns \in [1..n -> SortNames]} : n \in 0..MaxNamed}
  /\ soOut = [o \in SortOrders |-> NotSorted]

\* the sort step of handleCatalog for ?sort=name&order=<order>
NameRequest(sort, order) ==
  LET key == normalizeSortKey(sort)
      ord == normalizeOrder(order)
  IN  /\ key = "name"
      /\ soOut' = [soOut EXCEPT ![ord] = [done |-> TRUE, metas |-> sortMetas(soArr, key, ord)]]
      /\ UNCHANGED soArr

NamesInit ==
  InitNames /\ FirstParked /\ GenreParked /\ ManifestParked /\ AddParked /\ ExtrasParked /\ LateParked
NamesNext ==
  \E sort \in {"name", "title"}, order \in {"", "asc", "desc", "reverse"} :
    NameRequest(sort, order) /\ UNCHANGED <<firstVars, gnVars, mfVars, adVars, exVars, lateVars>>
SpecNames == NamesInit /\ [][NamesNext]_vars

\* the names of a result, in order
NamesOf(metas) == [k \in 1..Len(metas) |-> metas[k].name]

\* C23: the name sort gives one sequence for an item set, whatever order the
\* items are given in
C23_NameOrderDetermined ==
  \A o \in SortOrders :
    soOut[o].done =>
      \A given \in Orderings(soArr) : sortMetas(given, "name", o) = soOut[o].metas

\* C23: items whose stripped lower-case names are equal come out by raw name
\* and then by id
C23_TieBreak ==
  \A o \in SortOrders :
    soOut[o].done =>
      \A k \in 1..(Len(soOut[o].metas) - 1) :
        LET a == soOut[o].metas[k]
            b == soOut[o].metas[k + 1]
        IN  strip(a.name) = strip(b.name) =>
              IF a.name = b.name THEN a.id < b.id
              ELSE compareStrings(a.name, b.name) * (IF o = "desc" THEN -1 ELSE 1) < 0

\* C23: the stripped lower-case names of a result are in the order asked for
C23_PrimaryKey ==
  \A o \in SortOrders :
    soOut[o].done =>
      \A k \in 1..(Len(soOut[o].metas) - 1) :
        compareStrings(strip(soOut[o].metas[k].name), strip(soOut[o].metas[k + 1].name))
          * (IF o = "desc" THEN -1 ELSE 1) <= 0

\* C24: with sort=name and order=asc the lower-cased raw names of the result
\* are in non-decreasing order
C24_RawNamesMonotonic ==
  soOut["asc"].done =>
    \A k \in 1..(Len(soOut["asc"].metas) - 1) :
      compareStrings(toLowerCase(soOut["asc"].metas[k].name),
                     toLowerCase(soOut["asc"].metas[k + 1].name)) <= 0


\* ------------------------------------------------- the "added" order, served
\* A list of movies, in any order of its ids, is queried with no sort key or
\* with sort=added, in either order.
AddedIds == 1..3

\* the id sequences without repetition over AddedIds
AddedLists ==
  UNION {{f \in [1..n -> AddedIds] : \A a, b \in 1..n : f[a] = f[b] => a = b} :
           n \in 0..Cardinality(AddedIds)}

AddedParams ==
  {[type |-> "movie", idKind |-> "movies", genre |-> "", search |-> "", sort |-> so,
    order |-> o, skip |-> 0, limit |-> 0, cookie |-> "ok", path |-> "ok"] :
     so \in {"", "added", "recent"}, o \in {"", "asc", "desc", "reverse"}}

InitAdded ==
  /\ imdbList \in AddedLists
  /\ cinemeta = MoviesUpstream(Cardinality(AddedIds), [k \in AddedIds |-> <<"Comedy", 1, "Alpha">>])
  /\ lists = <<Entry("", "u", "u")>>
  /\ gateOn = FALSE
  /\ InitServing

AddedRequest == (\E p \in AddedParams : Request(p)) /\ UNCHANGED offServing
AddedInit == InitAdded /\ InitLookup /\ StatsParked /\ SplitParked /\ InitWarm /\ MoreParked
SpecAdded == AddedInit /\ [][AddedRequest]_vars

\* the ids of a metas array, in order
MetaIds(metas) == [k \in 1..Len(metas) |-> metas[k].id]

\* a sequence back to front
Backwards(q) == [k \in 1..Len(q) |-> q[Len(q) + 1 - k]]

\* the answer a query by "added" is to get: the list order, or its reverse
AddedAnswer(order) ==
  IF normalizeOrder(order) = "desc" THEN Backwards(imdbList) ELSE imdbList

\* C25: with sort key added, and with no sort key, ascending order answers in
\* the list order and descending order in exactly the reverse
C25_AddedOrder ==
  (res.by = "handleCatalog" /\ normalizeSortKey(req.sort) \in {"", "added"}) =>
    MetaIds(res.metas) = AddedAnswer(req.order)

\* C25: the same, for the queries that name the key
C25_NamedKey ==
  (res.by = "handleCatalog" /\ normalizeSortKey(req.sort) = "added") =>
    MetaIds(res.metas) = AddedAnswer(req.order)


\* ------------------------------------------ the genre options of a catalog
\* listGenresForType once its workers have finished: the DEFAULT_GENRES seen
\* on the list's items of the type
listGenresForType(up, ids, type) ==
  {g \in DEFAULT_GENRES :
     \E k \in 1..Len(ids) :
       LET meta == getTypedMetaDeterministic(up, type, ids[k])
       IN  meta # NoMeta /\ g \in Exploded(meta.genres)}

\* options of the genre extra in the catalog GET /manifest.json pushes for a
\* type: movieGenres / seriesGenres as listGenresForType returned them
GenreOptions(type) == listGenresForType(cinemeta, imdbList, type)

\* a catalog of the last manifest whose type was home-only when it was built
HomeOnlyCatalog(c) ==
  c \in mfCatalogs /\ mfVis[c[2]].home /\ ~mfVis[c[2]].discover

\* C26: the genre options of a catalog whose type is home-only include "Top"
C26_HomeOnlyTop ==
  \A c \in mfCatalogs : HomeOnlyCatalog(c) => "Top" \in GenreOptions(c[2])


\* ------------------------------------------------------- the pool's return
\* C27: the snapshots are written only when no worker invocation of the pool
\* is pending and every id of the list has its result
C27_WriteAfterPool ==
  spPhase = "written" =>
    /\ spRun = {}
    /\ \A k \in 1..Len(spIds) : spRes[k] # Pending

\* C27: the same for the lists no longer than the limit
C27_ShortLists ==
  (spPhase = "written" /\ Len(spIds) <= CONCURRENCY) =>
    /\ spRun = {}
    /\ \A k \in 1..Len(spIds) : spRes[k] # Pending


\* ---------------------------------------------------- the order of the items
\* the items of a snapshot are results of list positions that increase from
\* one item to the next
FromPositions(snapshot, type) ==
  \E f \in [1..Len(snapshot) -> 1..Len(spIds)] :
    /\ \A a, b \in 1..Len(snapshot) : a < b => f[a] < f[b]
    /\ \A a \in 1..Len(snapshot) :
         spRes[f[a]].type = type /\ spRes[f[a]].id = snapshot[a]

\* C28: whatever order the workers settle in, the items of both snapshots
\* are in the order of the list positions they were classified at
C28_SnapshotOrder ==
  spPhase = "written" =>
    FromPositions(spMovies, "movie") /\ FromPositions(spSeries, "series")

\* snapshots written for a list of MaxSplit ids, two items in one bucket
C28_Witness ==
  /\ spPhase = "written"
  /\ Len(spMovies) >= 2 \/ Len(spSeries) >= 2
  /\ Len(spIds) = MaxSplit

\* ordered of typedPage: the filled slots from the first to the last
Ordered(r) ==
  LET filled == SelectSeq([k \in 1..Len(LkIds) |-> k], LAMBDA k : lkReq[r].slots[k])
  IN  [a \in 1..Len(filled) |-> LkIds[filled[a]]]

\* the place of an id in the list
PlaceOf(tt) == CHOOSE k \in 1..Len(LkIds) : LkIds[k] = tt

\* C28: the page typedPage returns is in the order of the list, for every
\* interleaving of its workers
C28_PageOrder ==
  \A r \in LkReqs :
    lkReq[r].phase = "answered" =>
      \A a, b \in 1..Len(Ordered(r)) :
        a < b => PlaceOf(Ordered(r)[a]) < PlaceOf(Ordered(r)[b])


Waiting(r) == {w \in LkWorkers : lkWorker[r][w].pc \in {"S", "M"}}

\* C29: the invocations of one typedPage call that are in flight are never
\* more than its worker count, and claim different positions of the list
C29_PageBound ==
  \A r \in LkReqs :
    /\ Cardinality(Waiting(r)) <= CONC
    /\ \A v, w \in Waiting(r) : lkWorker[r][v].my = lkWorker[r][w].my => v = w


\* ------------------------------------------------ the label-to-bucket table
\* the bucket stated for a type label
StatedBucket(kind) ==
  CASE kind \in {"TV Series", "TV Mini Series"} -> "series"
    [] kind \in {"Movie", "TV Movie", "TV Special", "Short", "TV Short", "Video"} -> "movie"
    [] kind = "TV Episode" -> "episode"
    [] kind \in {"Video Game", "Podcast Series", "Podcast Episode"} -> "exclude"
    [] kind = "Music Video" -> IF INCLUDE_MUSIC_VIDEO THEN "movie" ELSE "exclude"
    [] OTHER -> "unknown"

\* the positions of the list whose worker has settled
Settled == {k \in 1..Len(spIds) : spRes[k] # Pending}

\* the bucket the worker's label step gets for the title at position k
LabelBucket(k) == mapTitleTypeToBucket(SplitUp[spIds[k]].label)

\* C30: for every title page the extraction can read, the bucket the label
\* step gets is the one stated for the page's type label
C30_LabelTable ==
  \A k \in Settled : LabelBucket(k) = StatedBucket(TitlePage(spIds[k]).kind)

\* C30, the labels for which the table is as stated
C30_AgreedLabels ==
  \A k \in Settled :
    TitlePage(spIds[k]).kind \in
        {"Movie", "TV Mini Series", "Short", "TV Short", "Video", "TV Episode",
         "Podcast Series", "Podcast Episode", ""}
      => LabelBucket(k) = StatedBucket(TitlePage(spIds[k]).kind)


\* ---------------------------------------------- the sources of the parent
earlyVars == <<firstVars, soVars, gnVars, mfVars, adVars, exVars>>
EarlyParked ==
  FirstParked /\ SortParked /\ GenreParked /\ ManifestParked /\ AddParked
    /\ ExtrasParked
offEp == <<earlyVars, chVars, coVars, ownVars>>
EpInit == InitEp /\ EarlyParked /\ InitCache /\ InitCo /\ OwnParked
EpNext ==
  \/ \E page \in EpPages, ok \in BOOLEAN : ResolveParent(page, ok) /\ UNCHANGED offEp
  \/ EpExpire /\ UNCHANGED offEp
SpecEp == EpInit /\ [][EpNext]_vars

\* the parent of the first source that yields one, in the order linked data,
\* parent attribute, cross-reference link
StatedParent(page) ==
  IF page.ld # 0 THEN page.ld
  ELSE IF page.attr # 0 THEN page.attr
  ELSE IF page.link # 0 /\ page.link # page.tt THEN page.link
  ELSE 0

\* C31: a parent read off a fetched page is the one of the first source that
\* yields one, linked data before the parent attribute before the link
C31_SourceOrder ==
  epOut.by = "page" => epOut.parent = StatedParent(epPage)

\* C31, the part that holds: the link is used only when neither the
\* attribute nor the linked data yields a parent
C31_LinkLast ==
  (epOut.by = "page" /\ (epPage.ld # 0 \/ epPage.attr # 0)) =>
    epOut.parent \in {epPage.ld, epPage.attr} \ {0}


\* ------------------------------------------------ fetchImdbIds page by page
offCh == <<earlyVars, epVars, coVars, ownVars>>
FetchInit == InitCache /\ EarlyParked /\ InitEp /\ InitCo /\ OwnParked
FetchNext ==
  \/ \E c \in CallIds : FetchStart(c) /\ UNCHANGED offCh
  \/ \E c \in CallIds, ans \in PageAnswers : FetchPage(c, ans) /\ UNCHANGED offCh
  \/ Tick /\ UNCHANGED offCh
SpecFetch == FetchInit /\ [][FetchNext]_vars

\* the call c goes from one page to the next in this step
NextPage(c) ==
  /\ fiCalls[c].st = "fetching"
  /\ fiCalls'[c].st = "fetching"
  /\ fiCalls'[c].page = fiCalls[c].page + 1

\* C32: a call does not go on to a further page after a page that yields
\* zero new ids
C32_ZeroNewStops ==
  [][\A c \in CallIds : NextPage(c) => fiCalls'[c].ids # fiCalls[c].ids]_vars

IsPrefix(a, b) == Len(a) <= Len(b) /\ SubSeq(b, 1, Len(a)) = a

\* C32, the part that holds: a call fetches at most PAGES_MAX pages and goes
\* on only after a full page, and its id list has no duplicates
C32_CapAndShortPage ==
  /\ fiOut.pages <= PAGES_MAX
  /\ NoDuplicates(fiOut.v.ids)
  /\ \A c \in CallIds :
       /\ fiCalls[c].page < PAGES_MAX
       /\ NoDuplicates(fiCalls[c].ids)
       /\ fiCalls[c].page > 0 => Len(fiCalls[c].last) >= FULL_PAGE

\* C32, the part that holds: the ids of a page are appended after the ids of
\* the pages before it, the new ones in page order
C32_FirstSeen ==
  [][\A c \in CallIds : NextPage(c) =>
       LET old == fiCalls[c].ids
           new == fiCalls'[c].ids
           last == fiCalls'[c].last
       IN  /\ IsPrefix(old, new)
           /\ \A i \in 1..Len(last) : \E k \in 1..Len(new) : new[k] = last[i]
           /\ \A k \in (Len(old) + 1)..Len(new) : \E i \in 1..Len(last) : last[i] = new[k]
           /\ \A k, l \in (Len(old) + 1)..Len(new) : k < l =>
                \E i, j \in 1..Len(last) : i < j /\ last[i] = new[k] /\ last[j] = new[l]]_vars

\* the call c begins in this step
Begins(c) ==
  /\ fiCalls[c].st = "idle"
  /\ fiCalls'[c].st = "fetching" \/ (fiOut' # fiOut /\ fiOut'.c = c)

\* C38: a call begun before the entry of a total failure expires returns
\* the cached failure without a fetch
C38_FailureServed ==
  [][\A c \in CallIds :
       (fiFail # 0 /\ clock <= fiFail /\ Begins(c))
         => (fiOut'.hit /\ fiOut'.v = FailVal /\ fiCalls'[c] = fiCalls[c])]_vars

\* C38, the part that holds: a total failure is stored under the list key
\* for TTL_SEC like any other result
C38_FailureStored ==
  [][\A c \in CallIds :
       (fiCalls[c].st = "fetching" /\ fiCalls'[c].st = "idle" /\ fiOut'.v = FailVal)
         => mem'[LsKey] = [has |-> TRUE, v |-> FailVal, exp |-> clock + TTL_SEC]]_vars


\* ---------------------------------------------------- the cache on its own
CacheNext ==
  \/ \E key \in CacheKeys : CacheGet(key) /\ UNCHANGED offCh
  \/ \E key \in CacheKeys, v \in OtherVals, ttlSec \in {TTL_SEC, LONG_TTL} :
       CacheSet(key, v, ttlSec) /\ UNCHANGED offCh
  \/ Tick /\ UNCHANGED offCh
SpecCache == FetchInit /\ [][CacheNext]_vars

\* the step is a setCache of the key k
SetOf(k) == \E v \in OtherVals, ttlSec \in {TTL_SEC, LONG_TTL} : CacheSet(k, v, ttlSec)

\* C33: a read returns a value only up to the entry's expiry, and an entry
\* that has not expired stays in the store, readable with its value,
\* through every step that is not a setCache of its own key
C33_UnexpiredKept ==
  [][\A k \in CacheKeys :
       /\ (CacheGet(k) /\ fiOut'.hit) => (clock <= mem[k].exp /\ fiOut'.v = mem[k].v)
       /\ (mem[k].has /\ clock' <= mem[k].exp /\ ~SetOf(k)) =>
            /\ mem'[k] = mem[k]
            /\ getCache(mem', k, clock').hit
            /\ getCache(mem', k, clock').v = mem[k].v]_vars

\* a setCache at the present time has swept an expired entry while an entry
\* set earlier, and expiring now, is in the store
C33_Witness ==
  /\ fiOut.swept # {}
  /\ \E k, n \in CacheKeys :
       /\ mem[k].has /\ mem[k].exp = clock
       /\ mem[n].has /\ mem[n].exp = clock + LONG_TTL


\* ------------------------------------------------ the complete item list
\* the items of the whole list that pass the type, search and genre of p,
\* sorted as p asks
WholeList(ls, up, ids, p) ==
  LET typed == typedPage(up, p.type, ids, Len(ids), p.search)
      wantedSet == WantedSet(p.genre)
      filtered == IF p.genre # ""
                  THEN SelectSeq(typed, LAMBDA meta : InWantedSet(meta, wantedSet))
                  ELSE typed
      sort == IF SortOf(ls, p) # "" THEN normalizeSortKey(SortOf(ls, p)) ELSE ""
      order == normalizeOrder(OrderOf(ls, p))
  IN  IF sort # "" THEN sortMetas(filtered, sort, order) ELSE filtered

\* C34: for one search, genre, sort and order, the pages for skip 0 and skip
\* one page length, one after the other, are the first two page lengths of
\* the complete filtered and sorted item list
C34_PagesOfWholeList ==
  (served[<<0, PAGE>>].done /\ served[<<PAGE, PAGE>>].done) =>
     served[<<0, PAGE>>].metas \o served[<<PAGE, PAGE>>].metas
       = Slice(WholeList(lists, cinemeta, imdbList, servedFor), 0, 2 * PAGE)

\* C34, the part that holds: the two pages have no item in common
C34_Disjoint ==
  (served[<<0, PAGE>>].done /\ served[<<PAGE, PAGE>>].done) =>
     \A i \in 1..Len(served[<<0, PAGE>>].metas), j \in 1..Len(served[<<PAGE, PAGE>>].metas) :
       served[<<0, PAGE>>].metas[i] # served[<<PAGE, PAGE>>].metas[j]


\* --------------------------------------------- the collection of one user
CoBodies == {PatchBody("hidden", "u", "u"), PatchBody("", "t", "u")}
offCo ==
  <<lkVars, stVars, spVars, wmVars, soVars, gnVars, mfVars, adVars, exVars, epVars, chVars,
    ownVars>>
CoInit ==
  InitAdd /\ InitCo /\ InitLookup /\ StatsParked /\ SplitParked /\ InitWarm /\ SortParked
    /\ GenreParked /\ ManifestParked /\ ExtrasParked /\ InitEp /\ InitCache /\ OwnParked
CoNext ==
  \/ \E a \in AddSlots, src \in CoSources : AddBegin(a, src) /\ UNCHANGED offCo
  \/ \E a \in AddSlots : AddEnd(a) /\ UNCHANGED offCo
  \/ \E lsid \in CoPatchIds, body \in CoBodies : CoPatch(lsid, body) /\ UNCHANGED offCo
  \/ \E lsid \in CoDeleteIds : CoDelete(lsid) /\ UNCHANGED offCo
SpecCo == CoInit /\ [][CoNext]_vars

\* C35: whatever add-list, patch-list and delete-list requests were served
\* and however the suspended add-list requests were interleaved with them,
\* no two entries of the collection have the same list identifier
C35_OneEntryPerId ==
  \A j, k \in 1..Len(lists) : lists[j].id = lists[k].id => j = k

\* two add-list requests for one list are suspended while the collection
\* already has an entry for it
C35_Witness ==
  /\ coPending = [a \in AddSlots |-> "ls123456"]
  /\ \E k \in 1..Len(lists) : lists[k].id = "ls123456"

\* C36: a patch-list or delete-list request for a list identifier that is
\* not in the collection leaves the collection as it was
C36_UnknownUntouched ==
  [][\A lsid \in CoPatchIds \cup CoDeleteIds :
       (lsid \notin ListIds(lists)
          /\ ((\E body \in CoBodies : CoPatch(lsid, body)) \/ CoDelete(lsid)))
         => lists' = lists]_vars

\* C36, the part that holds: a delete-list request for an identifier that is
\* not in the collection leaves the collection as it was
C36_DeleteUnknown ==
  [][\A lsid \in CoDeleteIds :
       (lsid \notin ListIds(lists) /\ CoDelete(lsid)) => lists' = lists]_vars


\* ------------------------------------------------ the label step adds nothing
\* the failure sets of a pass during which no upstream response changes: a
\* request that is repeated fails both times or neither
Unchanging ==
  {f \in SUBSET Fetches :
     /\ "m1" \in f <=> "m2" \in f
     /\ "s1" \in f <=> "s2" \in f
     /\ "p" \in f <=> "p2" \in f
     /\ "pm" \in f <=> "pm2" \in f}

\* a classifier that stops after step 2
StopAfterTwo(tt, f) ==
  LET up == SplitUp[tt]
      mMeta == up.movie /\ "m1" \notin f
      sMeta == up.series /\ "s1" \notin f
      parent == IF "p" \in f THEN 0 ELSE up.parent
      pMeta == parent # 0 /\ SplitUp[parent].series /\ "pm" \notin f
  IN  IF "throw" \in f THEN Result("null", 0, 0)
      ELSE IF mMeta /\ ~sMeta THEN Result("movie", tt, 0)
      ELSE IF sMeta THEN Result("series", tt, 0)
      ELSE IF parent # 0 /\ parent # tt /\ pMeta THEN Result("series", parent, parent)
      ELSE Result("exclude", 0, 0)

\* C37: during a pass in which no upstream response changes the worker
\* returns for every id what a classifier that stops after step 2 returns,
\* whatever the id's type label; with no failed request every snapshot item
\* is one that classifier puts into that snapshot
C37_LabelAddsNothing ==
  /\ \A k \in 1..Len(spIds), f \in Unchanging :
       ClassifyOne(spIds[k], f) = StopAfterTwo(spIds[k], f)
  /\ spFails = 0 =>
       /\ \A k \in Settled : spRes[k] = StopAfterTwo(spIds[k], {})
       /\ \A b \in {"movie", "series"} :
            Range(IF b = "movie" THEN spMovies ELSE spSeries)
              \subseteq {StopAfterTwo(spIds[k], {}).id :
                           k \in {j \in 1..Len(spIds) : StopAfterTwo(spIds[j], {}).type = b}}

\* the snapshots are written after a pass with no failed request over a list
\* with a title that has no metadata and no parent and whose page labels it
\* a movie: the title is excluded
C37_Witness ==
  /\ spPhase = "written" /\ spFails = 0
  /\ \E k \in Settled :
       /\ spIds[k] \in TitleIds /\ LabelBucket(k) = "movie"
       /\ spRes[k] = Result("exclude", 0, 0)


\* --------------------------------------- GET /:uid/manifest.json for user u1
\* The manifest of the v2 server asked for by user u1: wmFile holds the
\* snapshot files in data/cache/default, which hasType reads, u1File those in
\* data/cache/u1.
InitOwn ==
  u1File \in {[b \in Buckets |-> NoFile], [b \in Buckets |-> SnapshotOf(imdbList, b)]}
ManifestU1Init ==
  InitManifestV2 /\ InitLookup /\ StatsParked /\ SplitParked /\ SortParked /\ GenreParked
    /\ AddParked /\ ExtrasParked /\ InitEp /\ InitCache /\ InitCo /\ InitOwn
SpecManifestU1 == ManifestU1Init /\ [][ManifestV2Next]_vars

\* C39: when user u1 has a snapshot of the list with items of a type, the
\* manifest built for u1 has the list's catalog of that type, whatever
\* snapshot files another user has
C39_OwnSnapshot ==
  mfFor # <<>> =>
    \A b \in Buckets :
      Len(u1File[b].ids) > 0 => <<mfFor[1].id, b>> \in mfCatalogs

\* C39, the part that holds: the manifest has the catalog of a type when the
\* default user's snapshot of the list has items of that type
C39_DefaultSnapshot ==
  mfFor # <<>> =>
    \A b \in Buckets :
      Len(wmFile[b].ids) > 0 => <<mfFor[1].id, b>> \in mfCatalogs


\* ------------------------------------- the gate and the home-only check
\* the request served last names a catalog both tests read the same way
BothRead ==
  /\ req # NoReq
  /\ req.type \in Buckets
  /\ parseCatalogId(req.idKind) = req.type
  /\ req.path = "ok"

\* C40: the gate blocks a catalog request exactly when the home-only check
\* of handleCatalog answers it empty
C40_GateAgrees ==
  BothRead => (GateVerdict(FindEntry(lists, LSID), req) # "" <=> Ghosted(lists, req))

\* C40, the part that holds: for an entry whose record has both flags of the
\* type, not both off, the two tests agree on a query with a genre other
\* than Top and no search term
C40_RecordedGenre ==
  (BothRead /\ req.genre \notin {"", "Top"} /\ req.search = ""
     /\ FindEntry(lists, LSID).visibility[req.type].discover # "u"
     /\ FindEntry(lists, LSID).visibility[req.type].home # "u"
     /\ <<FindEntry(lists, LSID).visibility[req.type].discover,
          FindEntry(lists, LSID).visibility[req.type].home>> # <<"f", "f">>)
    => (GateVerdict(FindEntry(lists, LSID), req) # "" <=> Ghosted(lists, req))

====
